---- MODULE Spec2Model ----
(***************************************************************************)
(* HealthSecure: the three contracts HealthSecureIdentity,                 *)
(* MedicalRecordRegistry and AccessControl as one state machine.  Every    *)
(* external function is one atomic action (a transaction); a failing       *)
(* require reverts the transaction, so a failed call leaves the storage    *)
(* unchanged and only its outcome is observed.                             *)
(***************************************************************************)
EXTENDS Integers, Sequences, FiniteSets, TLC

(***************************************************************************)
(* Bounds of the model.                                                    *)
(***************************************************************************)
NumAddr == 3        \* externally owned accounts 1..NumAddr
NumRegistrants == 2 \* accounts 1..NumRegistrants are the ones that register an identity
NumHash == 3        \* bytes32 values 1..NumHash
NumDrawnHash == 2   \* hashes 1..NumDrawnHash are drawn where callers compete for hashes
NumId == 2          \* healthId / doctorId strings 1..NumId
NumCid == 2         \* profileCid / ipfsCid strings 1..NumCid
NumRecordType == 2  \* RecordType values 0..NumRecordType-1 that are drawn
MaxTime == 1        \* block.timestamp ranges over 0..MaxTime
MaxRecords == 2     \* createRecord is called at most MaxRecords times
MaxGrantTime == 2   \* block.timestamp ranges over 0..MaxGrantTime where grants expire

UintMax == 7        \* type(uint256).max, scaled to a 3-bit word

ZeroAddr == 0       \* address(0), the default value of an address slot
Addr == 1 .. NumAddr
Addr0 == 0 .. NumAddr   \* every value of type address: address(0) and the accounts
Registrants == 1 .. NumRegistrants
Durations == {0, 1, UintMax}
Hashes == 1 .. NumHash
DrawnHashes == 1 .. NumDrawnHash
Ids == 1 .. NumId
Cids == 1 .. NumCid
RecordTypes == 0 .. (NumRecordType - 1)
RecIds == 0 .. MaxRecords

\* enum Role { NONE, PATIENT, DOCTOR }
NONE == "NONE"
PATIENT == "PATIENT"
DOCTOR == "DOCTOR"

VARIABLES
    owner,              \* Ownable._owner
    identities,         \* mapping(address => Identity)
    hashToAddress,      \* mapping(bytes32 => address)
    healthIdToAddress,  \* mapping(string => address)
    doctorIdToAddress,  \* mapping(string => address)
    records,            \* mapping(uint256 => RecordEntry)
    recordCount,        \* uint256
    patientRecords,     \* mapping(address => uint256[])
    doctorRecords,      \* mapping(address => uint256[])
    accessGrants,       \* mapping(address => mapping(address => AccessGrant))
    patientDoctors,     \* mapping(address => address[])
    doctorPatients,     \* mapping(address => address[])
    now,                \* block.timestamp
    last,               \* the outcome of the most recent call
    emitted,            \* the events the most recent call emitted, in order
    createdOk,          \* history: number of createRecord calls that returned
    createdHash,        \* history: recordId -> recordHash argument of the creating call
    verifiedByOwner,    \* history: doctors for which a verifyDoctor call by the owner returned
    registered,         \* history: accounts whose registerPatient or registerDoctor call returned
    linkedHealthIds,    \* history: healthId arguments of the registerPatient calls that returned
    linkedDoctorIds,    \* history: doctorId arguments of the registerDoctor calls that returned
    recordCreatedEvents,\* history: number of RecordCreated events emitted so far
    replacedGrant       \* history: the stored grant the latest returned grantAccess overwrote

idVars == <<owner, identities, hashToAddress, healthIdToAddress, doctorIdToAddress>>
recVars == <<records, recordCount, patientRecords, doctorRecords>>
acVars == <<accessGrants, patientDoctors, doctorPatients>>
histVars ==
    <<createdOk, createdHash, verifiedByOwner, registered, linkedHealthIds, linkedDoctorIds, recordCreatedEvents,
      replacedGrant>>
vars == <<idVars, recVars, acVars, now, last, emitted, histVars>>

\* The zero value of a storage slot of type Identity.
NoIdentity ==
    [identityHash |-> 0, role |-> NONE, profileCid |-> 0,
     isVerified |-> FALSE, registeredAt |-> 0, exists |-> FALSE]

\* The zero value of a storage slot of type RecordEntry.
NoRecord ==
    [recordHash |-> 0, ipfsCid |-> 0, patient |-> ZeroAddr, doctor |-> ZeroAddr,
     recordType |-> 0, isVisible |-> FALSE, createdAt |-> 0, exists |-> FALSE]

\* The zero value of a storage slot of type AccessGrant.
NoGrant == [isGranted |-> FALSE, grantedAt |-> 0, expiresAt |-> 0, exists |-> FALSE]

\* Outcome of a call: the function called, err = "OK" when the call returned
\* and else the name of the check that reverted it, and the returned value
\* (retBool for a bool, ret for a uint256 or a tuple; FALSE and 0 when there
\* is none).
\* The names of the reverts and the reason strings of the source:
\*   AlreadyRegistered    "Identity already registered"
\*   DuplicateCredential  "Identity hash already used"
\*   DuplicateHealthId    "Health ID already used"
\*   DuplicateDoctorId    "Doctor ID already used"
\*   NotFound             "Identity not found", "Record not found",
\*                        "No access grant found"
\*   WrongRole            "Not a doctor"
\*   AlreadyVerified      "Already verified"
\*   NotRegistered        "Identity not registered"
\*   Unauthorized         "Only verified doctors can create records",
\*                        "Only patient can toggle visibility",
\*                        "Only patients can grant access",
\*                        "Only patients can revoke access"
\*   InvalidPatient       "Patient not registered"
\*   InvalidTarget        "Target is not a verified doctor"
\*   AccessDenied         "Access denied"
\*   OwnableUnauthorizedAccount, OwnableInvalidOwner   errors of Ownable
\*   Panic                arithmetic overflow of a checked uint256 addition
Call(op, err, ret, retBool) ==
    [op |-> op, err |-> err, ret |-> ret, retBool |-> retBool]

OK == "OK"

\* The events of the three contracts and of Ownable.  A call that reverts
\* emits nothing: its logs are discarded with its storage writes.
IdentityRegistered(wallet, identityHash, role, timestamp) ==
    [name |-> "IdentityRegistered", wallet |-> wallet, identityHash |-> identityHash,
     role |-> role, timestamp |-> timestamp]
ProfileUpdated(wallet, newProfileCid) ==
    [name |-> "ProfileUpdated", wallet |-> wallet, newProfileCid |-> newProfileCid]
DoctorVerified(wallet, timestamp) ==
    [name |-> "DoctorVerified", wallet |-> wallet, timestamp |-> timestamp]
HealthIdLinked(wallet, healthId) ==
    [name |-> "HealthIdLinked", wallet |-> wallet, healthId |-> healthId]
DoctorIdLinked(wallet, doctorId) ==
    [name |-> "DoctorIdLinked", wallet |-> wallet, doctorId |-> doctorId]
OwnershipTransferred(previousOwner, newOwner) ==
    [name |-> "OwnershipTransferred", previousOwner |-> previousOwner,
     newOwner |-> newOwner]
RecordCreated(recordId, patient, doctor, recordHash, ipfsCid, recordType, timestamp) ==
    [name |-> "RecordCreated", recordId |-> recordId, patient |-> patient,
     doctor |-> doctor, recordHash |-> recordHash, ipfsCid |-> ipfsCid,
     recordType |-> recordType, timestamp |-> timestamp]
RecordVisibilityChanged(recordId, patient, isVisible, timestamp) ==
    [name |-> "RecordVisibilityChanged", recordId |-> recordId, patient |-> patient,
     isVisible |-> isVisible, timestamp |-> timestamp]
AccessGranted(patient, doctor, grantedAt, expiresAt) ==
    [name |-> "AccessGranted", patient |-> patient, doctor |-> doctor,
     grantedAt |-> grantedAt, expiresAt |-> expiresAt]
AccessRevoked(patient, doctor, revokedAt) ==
    [name |-> "AccessRevoked", patient |-> patient, doctor |-> doctor,
     revokedAt |-> revokedAt]

(***************************************************************************)
(* HealthSecureIdentity                                                    *)
(***************************************************************************)

\* Mutant: isVerifiedDoctor does not look at the role.
isVerifiedDoctor_anyVerified(wallet) ==
    /\ identities[wallet].exists
    /\ identities[wallet].isVerified

\* isVerifiedDoctor(wallet)
isVerifiedDoctor(wallet) ==
    /\ identities[wallet].exists
    /\ identities[wallet].role = DOCTOR
    /\ identities[wallet].isVerified

\* isPatient(wallet)
isPatient(wallet) ==
    /\ identities[wallet].exists
    /\ identities[wallet].role = PATIENT

\* getPatientByHealthId(healthId)
getPatientByHealthId(healthId) == healthIdToAddress[healthId]

\* getDoctorByDoctorId(doctorId)
getDoctorByDoctorId(doctorId) == doctorIdToAddress[doctorId]

\* Mutant: registerPatient without the require on healthIdToAddress.
registerPatientErr_noHealthIdCheck(sender, identityHash, healthId) ==
    IF identities[sender].exists THEN "AlreadyRegistered"
    ELSE IF hashToAddress[identityHash] # ZeroAddr THEN "DuplicateCredential"
    ELSE OK

\* Mutant: registerPatient without the require on hashToAddress.
registerPatientErr_noHashCheck(sender, identityHash, healthId) ==
    IF identities[sender].exists THEN "AlreadyRegistered"
    ELSE IF healthIdToAddress[healthId] # ZeroAddr THEN "DuplicateHealthId"
    ELSE OK

\* The require chain of registerPatient, in source order.
registerPatientErr(sender, identityHash, healthId) ==
    IF identities[sender].exists THEN "AlreadyRegistered"
    ELSE IF hashToAddress[identityHash] # ZeroAddr THEN "DuplicateCredential"
    ELSE IF healthIdToAddress[healthId] # ZeroAddr THEN "DuplicateHealthId"
    ELSE OK

\* Mutant: registerDoctor checks the identity hash before the sender.
registerDoctorErr_credentialFirst(sender, identityHash, doctorId) ==
    IF hashToAddress[identityHash] # ZeroAddr THEN "DuplicateCredential"
    ELSE IF identities[sender].exists THEN "AlreadyRegistered"
    ELSE IF doctorIdToAddress[doctorId] # ZeroAddr THEN "DuplicateDoctorId"
    ELSE OK

\* The require chain of registerDoctor, in source order.
registerDoctorErr(sender, identityHash, doctorId) ==
    IF identities[sender].exists THEN "AlreadyRegistered"
    ELSE IF hashToAddress[identityHash] # ZeroAddr THEN "DuplicateCredential"
    ELSE IF doctorIdToAddress[doctorId] # ZeroAddr THEN "DuplicateDoctorId"
    ELSE OK

\* Mutant: verifyDoctor without the onlyOwner modifier.
verifyDoctorErr_anyone(sender, doctorAddress) ==
    IF ~identities[doctorAddress].exists THEN "NotFound"
    ELSE IF identities[doctorAddress].role # DOCTOR THEN "WrongRole"
    ELSE IF identities[doctorAddress].isVerified THEN "AlreadyVerified"
    ELSE OK

\* Mutant: verifyDoctor checks the verified flag before the role.
verifyDoctorErr_verifiedFirst(sender, doctorAddress) ==
    IF sender # owner THEN "OwnableUnauthorizedAccount"
    ELSE IF ~identities[doctorAddress].exists THEN "NotFound"
    ELSE IF identities[doctorAddress].isVerified THEN "AlreadyVerified"
    ELSE IF identities[doctorAddress].role # DOCTOR THEN "WrongRole"
    ELSE OK

\* The onlyOwner modifier and the require chain of verifyDoctor.
verifyDoctorErr(sender, doctorAddress) ==
    IF sender # owner THEN "OwnableUnauthorizedAccount"
    ELSE IF ~identities[doctorAddress].exists THEN "NotFound"
    ELSE IF identities[doctorAddress].role # DOCTOR THEN "WrongRole"
    ELSE IF identities[doctorAddress].isVerified THEN "AlreadyVerified"
    ELSE OK

\* Mutant: registerPatient does not record the health id in healthIdToAddress.
registerPatient_noHealthIdLink(sender, identityHash, healthId, profileCid) ==
    LET err == registerPatientErr(sender, identityHash, healthId) IN
    /\ last' = Call("registerPatient", err, 0, FALSE)
    /\ IF err = OK
       THEN /\ identities' = [identities EXCEPT ![sender] =
                   [identityHash |-> identityHash, role |-> PATIENT,
                    profileCid |-> profileCid, isVerified |-> TRUE,
                    registeredAt |-> now, exists |-> TRUE]]
            /\ hashToAddress' = [hashToAddress EXCEPT ![identityHash] = sender]
            /\ UNCHANGED <<owner, healthIdToAddress, doctorIdToAddress>>
            /\ emitted' = <<IdentityRegistered(sender, identityHash, PATIENT, now),
                             HealthIdLinked(sender, healthId)>>
            /\ registered' = registered \cup {sender}
            /\ linkedHealthIds' = linkedHealthIds \cup {healthId}
            /\ UNCHANGED linkedDoctorIds
       ELSE /\ UNCHANGED <<idVars, registered, linkedHealthIds, linkedDoctorIds>>
            /\ emitted' = <<>>
    /\ UNCHANGED <<recVars, acVars, now>>
    /\ UNCHANGED <<createdOk, createdHash, verifiedByOwner, recordCreatedEvents,
                   replacedGrant>>

registerPatient(sender, identityHash, healthId, profileCid) ==
    LET err == registerPatientErr(sender, identityHash, healthId) IN
    /\ last' = Call("registerPatient", err, 0, FALSE)
    /\ IF err = OK
       THEN /\ identities' = [identities EXCEPT ![sender] =
                   [identityHash |-> identityHash, role |-> PATIENT,
                    profileCid |-> profileCid, isVerified |-> TRUE,
                    registeredAt |-> now, exists |-> TRUE]]
            /\ hashToAddress' = [hashToAddress EXCEPT ![identityHash] = sender]
            /\ healthIdToAddress' = [healthIdToAddress EXCEPT ![healthId] = sender]
            /\ UNCHANGED <<owner, doctorIdToAddress>>
            /\ emitted' = <<IdentityRegistered(sender, identityHash, PATIENT, now),
                             HealthIdLinked(sender, healthId)>>
            /\ registered' = registered \cup {sender}
            /\ linkedHealthIds' = linkedHealthIds \cup {healthId}
            /\ UNCHANGED linkedDoctorIds
       ELSE /\ UNCHANGED <<idVars, registered, linkedHealthIds, linkedDoctorIds>>
            /\ emitted' = <<>>
    /\ UNCHANGED <<recVars, acVars, now>>
    /\ UNCHANGED <<createdOk, createdHash, verifiedByOwner, recordCreatedEvents,
                   replacedGrant>>

\* Mutant: registerDoctor does not record the identity hash in hashToAddress.
registerDoctor_noHashLink(sender, identityHash, doctorId, profileCid) ==
    LET err == registerDoctorErr(sender, identityHash, doctorId) IN
    /\ last' = Call("registerDoctor", err, 0, FALSE)
    /\ IF err = OK
       THEN /\ identities' = [identities EXCEPT ![sender] =
                   [identityHash |-> identityHash, role |-> DOCTOR,
                    profileCid |-> profileCid, isVerified |-> FALSE,
                    registeredAt |-> now, exists |-> TRUE]]
            /\ doctorIdToAddress' = [doctorIdToAddress EXCEPT ![doctorId] = sender]
            /\ UNCHANGED <<owner, hashToAddress, healthIdToAddress>>
            /\ emitted' = <<IdentityRegistered(sender, identityHash, DOCTOR, now),
                             DoctorIdLinked(sender, doctorId)>>
            /\ registered' = registered \cup {sender}
            /\ linkedDoctorIds' = linkedDoctorIds \cup {doctorId}
            /\ UNCHANGED linkedHealthIds
       ELSE /\ UNCHANGED <<idVars, registered, linkedHealthIds, linkedDoctorIds>>
            /\ emitted' = <<>>
    /\ UNCHANGED <<recVars, acVars, now>>
    /\ UNCHANGED <<createdOk, createdHash, verifiedByOwner, recordCreatedEvents,
                   replacedGrant>>

registerDoctor(sender, identityHash, doctorId, profileCid) ==
    LET err == registerDoctorErr(sender, identityHash, doctorId) IN
    /\ last' = Call("registerDoctor", err, 0, FALSE)
    /\ IF err = OK
       THEN /\ identities' = [identities EXCEPT ![sender] =
                   [identityHash |-> identityHash, role |-> DOCTOR,
                    profileCid |-> profileCid, isVerified |-> FALSE,
                    registeredAt |-> now, exists |-> TRUE]]
            /\ hashToAddress' = [hashToAddress EXCEPT ![identityHash] = sender]
            /\ doctorIdToAddress' = [doctorIdToAddress EXCEPT ![doctorId] = sender]
            /\ UNCHANGED <<owner, healthIdToAddress>>
            /\ emitted' = <<IdentityRegistered(sender, identityHash, DOCTOR, now),
                             DoctorIdLinked(sender, doctorId)>>
            /\ registered' = registered \cup {sender}
            /\ linkedDoctorIds' = linkedDoctorIds \cup {doctorId}
            /\ UNCHANGED linkedHealthIds
       ELSE /\ UNCHANGED <<idVars, registered, linkedHealthIds, linkedDoctorIds>>
            /\ emitted' = <<>>
    /\ UNCHANGED <<recVars, acVars, now>>
    /\ UNCHANGED <<createdOk, createdHash, verifiedByOwner, recordCreatedEvents,
                   replacedGrant>>

verifyDoctor(sender, doctorAddress) ==
    LET err == verifyDoctorErr(sender, doctorAddress) IN
    /\ last' = Call("verifyDoctor", err, 0, FALSE)
    /\ IF err = OK
       THEN /\ identities' = [identities EXCEPT ![doctorAddress].isVerified = TRUE]
            /\ verifiedByOwner' = IF sender = owner
                                   THEN verifiedByOwner \cup {doctorAddress}
                                   ELSE verifiedByOwner
            /\ UNCHANGED <<owner, hashToAddress, healthIdToAddress, doctorIdToAddress>>
            /\ emitted' = <<DoctorVerified(doctorAddress, now)>>
       ELSE /\ UNCHANGED <<idVars, verifiedByOwner>>
            /\ emitted' = <<>>
    /\ UNCHANGED <<recVars, acVars, now>>
    /\ UNCHANGED <<createdOk, createdHash, registered, linkedHealthIds, linkedDoctorIds, recordCreatedEvents, replacedGrant>>

\* Mutant: updateProfile stores the identity afresh, with a new timestamp.
updateProfile_resave(sender, newProfileCid) ==
    LET err == IF identities[sender].exists THEN OK ELSE "NotRegistered" IN
    /\ last' = Call("updateProfile", err, 0, FALSE)
    /\ IF err = OK
       THEN /\ identities' = [identities EXCEPT ![sender].profileCid = newProfileCid,
                                                ![sender].registeredAt = now]
            /\ UNCHANGED <<owner, hashToAddress, healthIdToAddress, doctorIdToAddress>>
            /\ emitted' = <<ProfileUpdated(sender, newProfileCid)>>
       ELSE /\ UNCHANGED idVars
            /\ emitted' = <<>>
    /\ UNCHANGED <<recVars, acVars, now, histVars>>

\* Mutant: updateProfile is refused to an identity that is not verified.
updateProfile_verifiedOnly(sender, newProfileCid) ==
    LET err == IF identities[sender].exists /\ identities[sender].isVerified
               THEN OK ELSE "NotRegistered" IN
    /\ last' = Call("updateProfile", err, 0, FALSE)
    /\ IF err = OK
       THEN /\ identities' = [identities EXCEPT ![sender].profileCid = newProfileCid]
            /\ UNCHANGED <<owner, hashToAddress, healthIdToAddress, doctorIdToAddress>>
            /\ emitted' = <<ProfileUpdated(sender, newProfileCid)>>
       ELSE /\ UNCHANGED idVars
            /\ emitted' = <<>>
    /\ UNCHANGED <<recVars, acVars, now, histVars>>

updateProfile(sender, newProfileCid) ==
    LET err == IF identities[sender].exists THEN OK ELSE "NotRegistered" IN
    /\ last' = Call("updateProfile", err, 0, FALSE)
    /\ IF err = OK
       THEN /\ identities' = [identities EXCEPT ![sender].profileCid = newProfileCid]
            /\ UNCHANGED <<owner, hashToAddress, healthIdToAddress, doctorIdToAddress>>
            /\ emitted' = <<ProfileUpdated(sender, newProfileCid)>>
       ELSE /\ UNCHANGED idVars
            /\ emitted' = <<>>
    /\ UNCHANGED <<recVars, acVars, now, histVars>>

\* The tuple getIdentity(wallet) returns for an identity that exists.
getIdentityRet(wallet) ==
    <<identities[wallet].identityHash, identities[wallet].role,
      identities[wallet].profileCid, identities[wallet].isVerified,
      identities[wallet].registeredAt>>

\* getIdentity is a view: it changes no storage.
getIdentity(sender, wallet) ==
    LET err == IF identities[wallet].exists THEN OK ELSE "NotFound" IN
    /\ last' = Call("getIdentity", err,
                    IF err = OK THEN getIdentityRet(wallet) ELSE 0, FALSE)
    /\ emitted' = <<>>
    /\ UNCHANGED <<idVars, recVars, acVars, now, histVars>>

\* Mutant: transferOwnership without the onlyOwner modifier.
transferOwnership_anyone(sender, newOwner) ==
    LET err == IF newOwner = ZeroAddr THEN "OwnableInvalidOwner" ELSE OK IN
    /\ last' = Call("transferOwnership", err, 0, FALSE)
    /\ owner' = IF err = OK THEN newOwner ELSE owner
    /\ emitted' = IF err = OK THEN <<OwnershipTransferred(owner, newOwner)>> ELSE <<>>
    /\ UNCHANGED <<identities, hashToAddress, healthIdToAddress, doctorIdToAddress>>
    /\ UNCHANGED <<recVars, acVars, now, histVars>>

\* Ownable.transferOwnership(newOwner), inherited: onlyOwner, newOwner # address(0).
transferOwnership(sender, newOwner) ==
    LET err == IF sender # owner THEN "OwnableUnauthorizedAccount"
               ELSE IF newOwner = ZeroAddr THEN "OwnableInvalidOwner"
               ELSE OK IN
    /\ last' = Call("transferOwnership", err, 0, FALSE)
    /\ owner' = IF err = OK THEN newOwner ELSE owner
    /\ emitted' = IF err = OK THEN <<OwnershipTransferred(owner, newOwner)>> ELSE <<>>
    /\ UNCHANGED <<identities, hashToAddress, healthIdToAddress, doctorIdToAddress>>
    /\ UNCHANGED <<recVars, acVars, now, histVars>>

\* Ownable.renounceOwnership(), inherited: onlyOwner, sets the owner to address(0).
renounceOwnership(sender) ==
    LET err == IF sender # owner THEN "OwnableUnauthorizedAccount" ELSE OK IN
    /\ last' = Call("renounceOwnership", err, 0, FALSE)
    /\ owner' = IF err = OK THEN ZeroAddr ELSE owner
    /\ emitted' = IF err = OK THEN <<OwnershipTransferred(owner, ZeroAddr)>> ELSE <<>>
    /\ UNCHANGED <<identities, hashToAddress, healthIdToAddress, doctorIdToAddress>>
    /\ UNCHANGED <<recVars, acVars, now, histVars>>

(***************************************************************************)
(* MedicalRecordRegistry                                                   *)
(***************************************************************************)

\* Mutant: the counter is not advanced after the record is stored.
incrementRecordCount_skip(count) == count

\* recordCount++
incrementRecordCount(count) == count + 1

\* Mutant: the toggle hides the record instead of flipping the flag.
toggled_hide(isVisible) == FALSE

\* records[recordId].isVisible = !records[recordId].isVisible
toggled(isVisible) == ~isVisible

\* Mutant: the verification only looks at whether the record exists.
hashMatches_exists(recordId, providedHash) == records[recordId].exists

\* records[recordId].recordHash == providedHash
hashMatches(recordId, providedHash) == records[recordId].recordHash = providedHash

\* Mutant: the two requires of createRecord in the opposite order.
createRecordErr_patientFirst(sender, patientAddress) ==
    IF ~isPatient(patientAddress) THEN "InvalidPatient"
    ELSE IF ~isVerifiedDoctor(sender) THEN "Unauthorized"
    ELSE OK

\* Mutant: createRecord admits any registered doctor, verified or not.
createRecordErr_anyDoctor(sender, patientAddress) ==
    IF ~(identities[sender].exists /\ identities[sender].role = DOCTOR)
    THEN "Unauthorized"
    ELSE IF ~isPatient(patientAddress) THEN "InvalidPatient"
    ELSE OK

\* The two requires of createRecord, in source order.
createRecordErr(sender, patientAddress) ==
    IF ~isVerifiedDoctor(sender) THEN "Unauthorized"
    ELSE IF ~isPatient(patientAddress) THEN "InvalidPatient"
    ELSE OK

\* Mutant: toggleVisibility admits the author of the record as well.
toggleVisibilityErr_author(sender, recordId) ==
    IF ~records[recordId].exists THEN "NotFound"
    ELSE IF records[recordId].patient # sender /\ records[recordId].doctor # sender
    THEN "Unauthorized"
    ELSE OK

\* The two requires of toggleVisibility, in source order.
toggleVisibilityErr(sender, recordId) ==
    IF ~records[recordId].exists THEN "NotFound"
    ELSE IF records[recordId].patient # sender THEN "Unauthorized"
    ELSE OK

\* Mutant: the access check forgets the doctor who created the record.
getRecordErr_noAuthor(sender, recordId) ==
    IF ~records[recordId].exists THEN "NotFound"
    ELSE IF ~(\/ records[recordId].patient = sender
              \/ records[recordId].isVisible) THEN "AccessDenied"
    ELSE OK

\* Mutant: the access check also admits a doctor to whom the record's
\* patient has granted access.
getRecordErr_grantee(sender, recordId) ==
    IF ~records[recordId].exists THEN "NotFound"
    ELSE IF ~(\/ records[recordId].patient = sender
              \/ records[recordId].doctor = sender
              \/ records[recordId].isVisible
              \/ /\ accessGrants[records[recordId].patient][sender].isGranted
                 /\ \/ accessGrants[records[recordId].patient][sender].expiresAt = 0
                    \/ now <= accessGrants[records[recordId].patient][sender].expiresAt)
         THEN "AccessDenied"
    ELSE OK

\* The two requires of getRecord, in source order.
getRecordErr(sender, recordId) ==
    IF ~records[recordId].exists THEN "NotFound"
    ELSE IF ~(\/ records[recordId].patient = sender
              \/ records[recordId].doctor = sender
              \/ records[recordId].isVisible) THEN "AccessDenied"
    ELSE OK

\* getPatientRecordIds(patient)
getPatientRecordIds(patient) == patientRecords[patient]

\* getDoctorRecordIds(doctor)
getDoctorRecordIds(doctor) == doctorRecords[doctor]

\* getTotalRecords()
getTotalRecords == recordCount

\* Mutant: the filter takes every record that exists.
isVisibleRecord_exists(recordId) == records[recordId].exists

\* records[allRecords[i]].isVisible, the test of both loops of
\* getVisiblePatientRecords
isVisibleRecord(recordId) == records[recordId].isVisible

\* The first loop of getVisiblePatientRecords from index i on: visibleCount.
RECURSIVE visibleCountFrom(_, _)
visibleCountFrom(allRecords, i) ==
    IF i > Len(allRecords) THEN 0
    ELSE (IF isVisibleRecord(allRecords[i]) THEN 1 ELSE 0)
         + visibleCountFrom(allRecords, i + 1)

\* The second loop of getVisiblePatientRecords from index i on: it writes
\* allRecords[i] at position index of visibleRecords (positions count from 1).
RECURSIVE fillVisible(_, _, _, _)
fillVisible(allRecords, visibleRecords, index, i) ==
    IF i > Len(allRecords) THEN visibleRecords
    ELSE IF isVisibleRecord(allRecords[i])
         THEN fillVisible(allRecords, [visibleRecords EXCEPT ![index] = allRecords[i]],
                          index + 1, i + 1)
         ELSE fillVisible(allRecords, visibleRecords, index, i + 1)

\* getVisiblePatientRecords(patient): new uint256[](visibleCount), then filled
getVisiblePatientRecords(patient) ==
    LET allRecords == patientRecords[patient]
        visibleCount == visibleCountFrom(allRecords, 1) IN
    fillVisible(allRecords, [k \in 1 .. visibleCount |-> 0], 1, 1)

\* Mutant: the new id is put at the front of the patient's list.
createRecord_prepend(sender, patientAddress, recordHash, ipfsCid, recordType) ==
    LET err == createRecordErr(sender, patientAddress)
        recordId == recordCount IN
    /\ err = OK => recordCount < MaxRecords
    /\ last' = Call("createRecord", err, IF err = OK THEN recordId ELSE 0, FALSE)
    /\ IF err = OK
       THEN /\ records' = [records EXCEPT ![recordId] =
                   [recordHash |-> recordHash, ipfsCid |-> ipfsCid,
                    patient |-> patientAddress, doctor |-> sender,
                    recordType |-> recordType, isVisible |-> TRUE,
                    createdAt |-> now, exists |-> TRUE]]
            /\ patientRecords' = [patientRecords EXCEPT ![patientAddress] =
                   <<recordId>> \o @]
            /\ doctorRecords' = [doctorRecords EXCEPT ![sender] = Append(@, recordId)]
            /\ recordCount' = incrementRecordCount(recordCount)
            /\ emitted' = <<RecordCreated(recordId, patientAddress, sender, recordHash,
                                           ipfsCid, recordType, now)>>
            /\ createdOk' = createdOk + 1
            /\ createdHash' = [createdHash EXCEPT ![recordId] = recordHash]
            /\ recordCreatedEvents' = recordCreatedEvents + 1
       ELSE /\ UNCHANGED <<recVars, createdOk, createdHash, recordCreatedEvents>>
            /\ emitted' = <<>>
    /\ UNCHANGED <<idVars, acVars, now, verifiedByOwner, registered, linkedHealthIds, linkedDoctorIds, replacedGrant>>

\* Mutant: the author's index entry is filed under the patient's address.
createRecord_authorUnderPatient(sender, patientAddress, recordHash, ipfsCid, recordType) ==
    LET err == createRecordErr(sender, patientAddress)
        recordId == recordCount IN
    /\ err = OK => recordCount < MaxRecords
    /\ last' = Call("createRecord", err, IF err = OK THEN recordId ELSE 0, FALSE)
    /\ IF err = OK
       THEN /\ records' = [records EXCEPT ![recordId] =
                   [recordHash |-> recordHash, ipfsCid |-> ipfsCid,
                    patient |-> patientAddress, doctor |-> sender,
                    recordType |-> recordType, isVisible |-> TRUE,
                    createdAt |-> now, exists |-> TRUE]]
            /\ patientRecords' = [patientRecords EXCEPT ![patientAddress] =
                   Append(@, recordId)]
            /\ doctorRecords' = [doctorRecords EXCEPT ![patientAddress] =
                   Append(@, recordId)]
            /\ recordCount' = incrementRecordCount(recordCount)
            /\ emitted' = <<RecordCreated(recordId, patientAddress, sender, recordHash,
                                           ipfsCid, recordType, now)>>
            /\ createdOk' = createdOk + 1
            /\ createdHash' = [createdHash EXCEPT ![recordId] = recordHash]
            /\ recordCreatedEvents' = recordCreatedEvents + 1
       ELSE /\ UNCHANGED <<recVars, createdOk, createdHash, recordCreatedEvents>>
            /\ emitted' = <<>>
    /\ UNCHANGED <<idVars, acVars, now, verifiedByOwner, registered, linkedHealthIds, linkedDoctorIds, replacedGrant>>

\* Mutant: createRecord takes the next id before it looks at the patient and
\* reports an unregistered patient by an early return, not by a require:
\* nothing reverts, and the counter stays advanced after the failed call.
createRecord_returnEarly(sender, patientAddress, recordHash, ipfsCid, recordType) ==
    LET err == createRecordErr(sender, patientAddress)
        recordId == recordCount IN
    /\ err # "Unauthorized" => recordCount < MaxRecords
    /\ last' = Call("createRecord", err, IF err = OK THEN recordId ELSE 0, FALSE)
    /\ IF err = OK
       THEN /\ records' = [records EXCEPT ![recordId] =
                   [recordHash |-> recordHash, ipfsCid |-> ipfsCid,
                    patient |-> patientAddress, doctor |-> sender,
                    recordType |-> recordType, isVisible |-> TRUE,
                    createdAt |-> now, exists |-> TRUE]]
            /\ patientRecords' = [patientRecords EXCEPT ![patientAddress] =
                   Append(@, recordId)]
            /\ doctorRecords' = [doctorRecords EXCEPT ![sender] = Append(@, recordId)]
            /\ recordCount' = incrementRecordCount(recordCount)
            /\ emitted' = <<RecordCreated(recordId, patientAddress, sender, recordHash,
                                           ipfsCid, recordType, now)>>
            /\ createdOk' = createdOk + 1
            /\ createdHash' = [createdHash EXCEPT ![recordId] = recordHash]
            /\ recordCreatedEvents' = recordCreatedEvents + 1
       ELSE /\ recordCount' = IF err = "InvalidPatient"
                              THEN incrementRecordCount(recordCount)
                              ELSE recordCount
            /\ UNCHANGED <<records, patientRecords, doctorRecords>>
            /\ UNCHANGED <<createdOk, createdHash, recordCreatedEvents>>
            /\ emitted' = <<>>
    /\ UNCHANGED <<idVars, acVars, now, verifiedByOwner, registered, linkedHealthIds, linkedDoctorIds, replacedGrant>>

createRecord(sender, patientAddress, recordHash, ipfsCid, recordType) ==
    LET err == createRecordErr(sender, patientAddress)
        recordId == recordCount IN
    /\ err = OK => recordCount < MaxRecords
    /\ last' = Call("createRecord", err, IF err = OK THEN recordId ELSE 0, FALSE)
    /\ IF err = OK
       THEN /\ records' = [records EXCEPT ![recordId] =
                   [recordHash |-> recordHash, ipfsCid |-> ipfsCid,
                    patient |-> patientAddress, doctor |-> sender,
                    recordType |-> recordType, isVisible |-> TRUE,
                    createdAt |-> now, exists |-> TRUE]]
            /\ patientRecords' = [patientRecords EXCEPT ![patientAddress] =
                   Append(@, recordId)]
            /\ doctorRecords' = [doctorRecords EXCEPT ![sender] = Append(@, recordId)]
            /\ recordCount' = incrementRecordCount(recordCount)
            /\ emitted' = <<RecordCreated(recordId, patientAddress, sender, recordHash,
                                           ipfsCid, recordType, now)>>
            /\ createdOk' = createdOk + 1
            /\ createdHash' = [createdHash EXCEPT ![recordId] = recordHash]
            /\ recordCreatedEvents' = recordCreatedEvents + 1
       ELSE /\ UNCHANGED <<recVars, createdOk, createdHash, recordCreatedEvents>>
            /\ emitted' = <<>>
    /\ UNCHANGED <<idVars, acVars, now, verifiedByOwner, registered, linkedHealthIds, linkedDoctorIds, replacedGrant>>

\* Mutant: the event is emitted before the flag is flipped.
toggleVisibility_emitBefore(sender, recordId) ==
    LET err == toggleVisibilityErr(sender, recordId) IN
    /\ last' = Call("toggleVisibility", err, 0, FALSE)
    /\ IF err = OK
       THEN /\ records' = [records EXCEPT ![recordId].isVisible =
                                 toggled(records[recordId].isVisible)]
            /\ emitted' = <<RecordVisibilityChanged(recordId, sender,
                                 records[recordId].isVisible, now)>>
       ELSE /\ UNCHANGED records
            /\ emitted' = <<>>
    /\ UNCHANGED <<recordCount, patientRecords, doctorRecords>>
    /\ UNCHANGED <<idVars, acVars, now, histVars>>

toggleVisibility(sender, recordId) ==
    LET err == toggleVisibilityErr(sender, recordId) IN
    /\ last' = Call("toggleVisibility", err, 0, FALSE)
    /\ IF err = OK
       THEN /\ records' = [records EXCEPT ![recordId].isVisible =
                                 toggled(records[recordId].isVisible)]
            /\ emitted' = <<RecordVisibilityChanged(recordId, sender,
                                 records'[recordId].isVisible, now)>>
       ELSE /\ UNCHANGED records
            /\ emitted' = <<>>
    /\ UNCHANGED <<recordCount, patientRecords, doctorRecords>>
    /\ UNCHANGED <<idVars, acVars, now, histVars>>

\* Mutant: verifyRecord applies the caller check of getRecord.
verifyRecord_callerCheck(sender, recordId, providedHash) ==
    LET err == getRecordErr(sender, recordId) IN
    /\ last' = Call("verifyRecord", err, 0,
                    err = OK /\ hashMatches(recordId, providedHash))
    /\ emitted' = <<>>
    /\ UNCHANGED <<idVars, recVars, acVars, now, histVars>>

\* verifyRecord is a view: it changes no storage.
verifyRecord(sender, recordId, providedHash) ==
    LET err == IF records[recordId].exists THEN OK ELSE "NotFound" IN
    /\ last' = Call("verifyRecord", err, 0,
                    err = OK /\ hashMatches(recordId, providedHash))
    /\ emitted' = <<>>
    /\ UNCHANGED <<idVars, recVars, acVars, now, histVars>>

\* The tuple getRecord(recordId) returns to a caller it admits.
getRecordRet(recordId) ==
    <<records[recordId].recordHash, records[recordId].ipfsCid,
      records[recordId].patient, records[recordId].doctor,
      records[recordId].recordType, records[recordId].isVisible,
      records[recordId].createdAt>>

\* getRecord is a view: it changes no storage.
getRecord(sender, recordId) ==
    LET err == getRecordErr(sender, recordId) IN
    /\ last' = Call("getRecord", err,
                    IF err = OK THEN getRecordRet(recordId) ELSE 0, FALSE)
    /\ emitted' = <<>>
    /\ UNCHANGED <<idVars, recVars, acVars, now, histVars>>

(***************************************************************************)
(* AccessControl                                                           *)
(***************************************************************************)

\* Mutant: a grant counts as expired already at the instant expiresAt.
hasAccess_strict(patientAddress, doctorAddress) ==
    LET grant == accessGrants[patientAddress][doctorAddress] IN
    IF ~grant.exists \/ ~grant.isGranted THEN FALSE
    ELSE IF grant.expiresAt > 0 /\ now >= grant.expiresAt THEN FALSE
    ELSE TRUE

\* hasAccess(patientAddress, doctorAddress), evaluated at block.timestamp = now
hasAccess(patientAddress, doctorAddress) ==
    LET grant == accessGrants[patientAddress][doctorAddress] IN
    IF ~grant.exists \/ ~grant.isGranted THEN FALSE
    ELSE IF grant.expiresAt > 0 /\ now > grant.expiresAt THEN FALSE
    ELSE TRUE

\* accessGrants[patientAddress][doctorAddress], the stored grant
storedGrant(patientAddress, doctorAddress) ==
    accessGrants[patientAddress][doctorAddress]

\* Mutant: getAccessGrant reports the stored flag, whatever the clock says.
getAccessGrant_storedFlag(patientAddress, doctorAddress) ==
    LET grant == accessGrants[patientAddress][doctorAddress]
        expired == grant.expiresAt > 0 /\ now > grant.expiresAt IN
    [isGranted |-> grant.isGranted, grantedAt |-> grant.grantedAt,
     expiresAt |-> grant.expiresAt, isExpired |-> expired]

\* getAccessGrant(patientAddress, doctorAddress): no require; isGranted is
\* reported false for an expired grant
getAccessGrant(patientAddress, doctorAddress) ==
    LET grant == accessGrants[patientAddress][doctorAddress]
        expired == grant.expiresAt > 0 /\ now > grant.expiresAt IN
    [isGranted |-> grant.isGranted /\ ~expired, grantedAt |-> grant.grantedAt,
     expiresAt |-> grant.expiresAt, isExpired |-> expired]

\* getPatientDoctors(patientAddress)
getPatientDoctors(patientAddress) == patientDoctors[patientAddress]

\* getDoctorPatients(doctorAddress)
getDoctorPatients(doctorAddress) == doctorPatients[doctorAddress]

\* Mutant: the count takes every granted pair, expired or not.
isActiveGrant_ignoreExpiry(grant) == grant.isGranted

\* The test in the loop of getActivePatientCount: grant.isGranted and
\* (grant.expiresAt == 0 || block.timestamp <= grant.expiresAt)
isActiveGrant(grant) ==
    grant.isGranted /\ (grant.expiresAt = 0 \/ now <= grant.expiresAt)

\* The loop of getActivePatientCount from index i on (i counts from 1 here).
RECURSIVE activeCountFrom(_, _, _)
activeCountFrom(patients, doctorAddress, i) ==
    IF i > Len(patients) THEN 0
    ELSE (IF isActiveGrant(accessGrants[patients[i]][doctorAddress]) THEN 1 ELSE 0)
         + activeCountFrom(patients, doctorAddress, i + 1)

\* getActivePatientCount(doctorAddress)
getActivePatientCount(doctorAddress) ==
    activeCountFrom(doctorPatients[doctorAddress], doctorAddress, 1)

\* Mutant: the two requires of grantAccess in the opposite order.
grantAccessErr_targetFirst(sender, doctorAddress, durationSeconds) ==
    IF ~isVerifiedDoctor(doctorAddress) THEN "InvalidTarget"
    ELSE IF ~isPatient(sender) THEN "Unauthorized"
    ELSE IF durationSeconds > 0 /\ now + durationSeconds > UintMax THEN "Panic"
    ELSE OK

\* Mutant: grantAccess without the require on the target.
grantAccessErr_anyTarget(sender, doctorAddress, durationSeconds) ==
    IF ~isPatient(sender) THEN "Unauthorized"
    ELSE IF durationSeconds > 0 /\ now + durationSeconds > UintMax THEN "Panic"
    ELSE OK

\* The two requires of grantAccess, then the checked addition of line 77.
grantAccessErr(sender, doctorAddress, durationSeconds) ==
    IF ~isPatient(sender) THEN "Unauthorized"
    ELSE IF ~isVerifiedDoctor(doctorAddress) THEN "InvalidTarget"
    ELSE IF durationSeconds > 0 /\ now + durationSeconds > UintMax THEN "Panic"
    ELSE OK

\* Mutant: revokeAccess also requires that the grant is still in force.
revokeAccessErr_requireActive(sender, doctorAddress) ==
    IF ~isPatient(sender) THEN "Unauthorized"
    ELSE IF ~accessGrants[sender][doctorAddress].exists THEN "NotFound"
    ELSE IF ~accessGrants[sender][doctorAddress].isGranted THEN "NotFound"
    ELSE OK

\* The two requires of revokeAccess, in source order.
revokeAccessErr(sender, doctorAddress) ==
    IF ~isPatient(sender) THEN "Unauthorized"
    ELSE IF ~accessGrants[sender][doctorAddress].exists THEN "NotFound"
    ELSE OK

\* Mutant: a pair counts as new whenever its grant is not in force.
isNewGrant_notGranted(sender, doctorAddress) ==
    ~accessGrants[sender][doctorAddress].isGranted

\* bool isNewGrant = !accessGrants[msg.sender][doctorAddress].exists
isNewGrant(sender, doctorAddress) == ~accessGrants[sender][doctorAddress].exists

\* Mutant: the revocation deletes the grant.
revoked_delete(grant) == NoGrant

\* Mutant: the revocation also clears the exists flag of the grant.
revoked_clearExists(grant) == [grant EXCEPT !.isGranted = FALSE, !.exists = FALSE]

\* accessGrants[msg.sender][doctorAddress].isGranted = false
revoked(grant) == [grant EXCEPT !.isGranted = FALSE]

\* Mutant: a grant that exists keeps its expiresAt when it is granted again.
grantAccess_keepExpiry(sender, doctorAddress, durationSeconds) ==
    LET err == grantAccessErr(sender, doctorAddress, durationSeconds)
        expiresAt == IF ~isNewGrant(sender, doctorAddress)
                     THEN accessGrants[sender][doctorAddress].expiresAt
                     ELSE IF durationSeconds > 0 THEN now + durationSeconds ELSE 0 IN
    /\ last' = Call("grantAccess", err, 0, FALSE)
    /\ IF err = OK
       THEN /\ accessGrants' = [accessGrants EXCEPT ![sender][doctorAddress] =
                   [isGranted |-> TRUE, grantedAt |-> now,
                    expiresAt |-> expiresAt, exists |-> TRUE]]
            /\ patientDoctors' = IF isNewGrant(sender, doctorAddress)
                   THEN [patientDoctors EXCEPT ![sender] = Append(@, doctorAddress)]
                   ELSE patientDoctors
            /\ doctorPatients' = IF isNewGrant(sender, doctorAddress)
                   THEN [doctorPatients EXCEPT ![doctorAddress] = Append(@, sender)]
                   ELSE doctorPatients
            /\ emitted' = <<AccessGranted(sender, doctorAddress, now, expiresAt)>>
       ELSE /\ UNCHANGED acVars
            /\ emitted' = <<>>
    /\ UNCHANGED <<idVars, recVars, now>>
    /\ UNCHANGED <<createdOk, createdHash, verifiedByOwner, registered, linkedHealthIds, linkedDoctorIds, recordCreatedEvents>>

\* grantAccess writes no history of its own: the caller of the action says
\* what replacedGrant becomes.
grantAccess(sender, doctorAddress, durationSeconds) ==
    LET err == grantAccessErr(sender, doctorAddress, durationSeconds)
        expiresAt == IF durationSeconds > 0 THEN now + durationSeconds ELSE 0 IN
    /\ last' = Call("grantAccess", err, 0, FALSE)
    /\ IF err = OK
       THEN /\ accessGrants' = [accessGrants EXCEPT ![sender][doctorAddress] =
                   [isGranted |-> TRUE, grantedAt |-> now,
                    expiresAt |-> expiresAt, exists |-> TRUE]]
            /\ patientDoctors' = IF isNewGrant(sender, doctorAddress)
                   THEN [patientDoctors EXCEPT ![sender] = Append(@, doctorAddress)]
                   ELSE patientDoctors
            /\ doctorPatients' = IF isNewGrant(sender, doctorAddress)
                   THEN [doctorPatients EXCEPT ![doctorAddress] = Append(@, sender)]
                   ELSE doctorPatients
            /\ emitted' = <<AccessGranted(sender, doctorAddress, now, expiresAt)>>
       ELSE /\ UNCHANGED acVars
            /\ emitted' = <<>>
    /\ UNCHANGED <<idVars, recVars, now>>
    /\ UNCHANGED <<createdOk, createdHash, verifiedByOwner, registered, linkedHealthIds, linkedDoctorIds, recordCreatedEvents>>

revokeAccess(sender, doctorAddress) ==
    LET err == revokeAccessErr(sender, doctorAddress) IN
    /\ last' = Call("revokeAccess", err, 0, FALSE)
    /\ IF err = OK
       THEN /\ accessGrants' = [accessGrants EXCEPT ![sender][doctorAddress] =
                                      revoked(accessGrants[sender][doctorAddress])]
            /\ emitted' = <<AccessRevoked(sender, doctorAddress, now)>>
       ELSE /\ UNCHANGED accessGrants
            /\ emitted' = <<>>
    /\ UNCHANGED <<patientDoctors, doctorPatients>>
    /\ UNCHANGED <<idVars, recVars, now, histVars>>

(***************************************************************************)
(* Calls of the view functions that have no require.  A view function      *)
(* cannot write storage or emit an event, and none of these reads          *)
(* msg.sender, so the call has no sender parameter.  The operator of the   *)
(* same name gives the value the call returns.                             *)
(***************************************************************************)
ViewReturns(op, ret, retBool) ==
    /\ last' = Call(op, OK, ret, retBool)
    /\ emitted' = <<>>
    /\ UNCHANGED <<idVars, recVars, acVars, now, histVars>>

isVerifiedDoctorCall(wallet) == ViewReturns("isVerifiedDoctor", 0, isVerifiedDoctor(wallet))
isPatientCall(wallet) == ViewReturns("isPatient", 0, isPatient(wallet))
getPatientByHealthIdCall(healthId) ==
    ViewReturns("getPatientByHealthId", getPatientByHealthId(healthId), FALSE)
getDoctorByDoctorIdCall(doctorId) ==
    ViewReturns("getDoctorByDoctorId", getDoctorByDoctorId(doctorId), FALSE)

getPatientRecordIdsCall(patient) ==
    ViewReturns("getPatientRecordIds", getPatientRecordIds(patient), FALSE)
getDoctorRecordIdsCall(doctor) ==
    ViewReturns("getDoctorRecordIds", getDoctorRecordIds(doctor), FALSE)
getVisiblePatientRecordsCall(patient) ==
    ViewReturns("getVisiblePatientRecords", getVisiblePatientRecords(patient), FALSE)
getTotalRecordsCall == ViewReturns("getTotalRecords", getTotalRecords, FALSE)

\* The getter that the compiler generates for the public mapping records:
\* every member of the stored RecordEntry, the zero value for an id never
\* written, for any caller.
recordsGetter(recordId) ==
    <<records[recordId].recordHash, records[recordId].ipfsCid,
      records[recordId].patient, records[recordId].doctor,
      records[recordId].recordType, records[recordId].isVisible,
      records[recordId].createdAt, records[recordId].exists>>
recordsCall(recordId) == ViewReturns("records", recordsGetter(recordId), FALSE)

\* Mutant: hasAccess clears the stored flag of a grant it finds expired.
hasAccessCall_expire(patientAddress, doctorAddress) ==
    LET grant == accessGrants[patientAddress][doctorAddress] IN
    /\ last' = Call("hasAccess", OK, 0, hasAccess(patientAddress, doctorAddress))
    /\ emitted' = <<>>
    /\ accessGrants' =
          IF grant.isGranted /\ grant.expiresAt > 0 /\ now > grant.expiresAt
          THEN [accessGrants EXCEPT ![patientAddress][doctorAddress].isGranted = FALSE]
          ELSE accessGrants
    /\ UNCHANGED <<patientDoctors, doctorPatients>>
    /\ UNCHANGED <<idVars, recVars, now, histVars>>

hasAccessCall(patientAddress, doctorAddress) ==
    ViewReturns("hasAccess", 0, hasAccess(patientAddress, doctorAddress))
getAccessGrantCall(patientAddress, doctorAddress) ==
    ViewReturns("getAccessGrant", getAccessGrant(patientAddress, doctorAddress), FALSE)
getPatientDoctorsCall(patientAddress) ==
    ViewReturns("getPatientDoctors", getPatientDoctors(patientAddress), FALSE)
getDoctorPatientsCall(doctorAddress) ==
    ViewReturns("getDoctorPatients", getDoctorPatients(doctorAddress), FALSE)
getActivePatientCountCall(doctorAddress) ==
    ViewReturns("getActivePatientCount", getActivePatientCount(doctorAddress), FALSE)

(***************************************************************************)
(* The chain: block.timestamp never decreases.                             *)
(***************************************************************************)
Advance(limit) ==
    /\ now < limit
    /\ now' = now + 1
    /\ UNCHANGED <<idVars, recVars, acVars, last, emitted, histVars>>

Tick == Advance(MaxTime)

\* The account that deploys the three contracts.
Deployer == NumAddr

\* State after the three constructors: the deployer owns the identity contract.
Init ==
    /\ owner = Deployer
    /\ identities = [a \in Addr0 |-> NoIdentity]
    /\ hashToAddress = [h \in Hashes |-> ZeroAddr]
    /\ healthIdToAddress = [i \in Ids |-> ZeroAddr]
    /\ doctorIdToAddress = [i \in Ids |-> ZeroAddr]
    /\ records = [r \in RecIds |-> NoRecord]
    /\ recordCount = 0
    /\ patientRecords = [a \in Addr0 |-> <<>>]
    /\ doctorRecords = [a \in Addr0 |-> <<>>]
    /\ accessGrants = [p \in Addr0 |-> [d \in Addr0 |-> NoGrant]]
    /\ patientDoctors = [a \in Addr0 |-> <<>>]
    /\ doctorPatients = [a \in Addr0 |-> <<>>]
    /\ now = 0
    /\ last = Call("constructor", OK, 0, FALSE)
    /\ createdOk = 0
    /\ createdHash = [r \in RecIds |-> 0]
    /\ verifiedByOwner = {}
    /\ registered = {}
    /\ linkedHealthIds = {}
    /\ linkedDoctorIds = {}
    /\ emitted = <<>>
    /\ recordCreatedEvents = 0
    /\ replacedGrant = NoGrant

(***************************************************************************)
(* The whole system: every function, every account, every input.           *)
(***************************************************************************)
DoRegisterPatient ==
    \E s \in Addr, h \in Hashes, i \in Ids, c \in Cids : registerPatient(s, h, i, c)
DoRegisterDoctor ==
    \E s \in Addr, h \in Hashes, i \in Ids, c \in Cids : registerDoctor(s, h, i, c)
DoVerifyDoctor == \E s \in Addr, d \in Addr0 : verifyDoctor(s, d)
DoUpdateProfile == \E s \in Addr, c \in Cids : updateProfile(s, c)
DoGetIdentity == \E s \in Addr, w \in Addr0 : getIdentity(s, w)
DoTransferOwnership == \E s \in Addr, n \in Addr0 : transferOwnership(s, n)
DoRenounceOwnership == \E s \in Addr : renounceOwnership(s)
DoCreateRecord ==
    \E s \in Addr, p \in Addr0, h \in Hashes, c \in Cids, t \in RecordTypes :
        createRecord(s, p, h, c, t)
DoToggleVisibility == \E s \in Addr, r \in RecIds : toggleVisibility(s, r)
DoVerifyRecord == \E s \in Addr, r \in RecIds, h \in Hashes : verifyRecord(s, r, h)
DoGetRecord == \E s \in Addr, r \in RecIds : getRecord(s, r)
DoGrantAccess ==
    /\ \E s \in Addr, d \in Addr0, n \in Durations : grantAccess(s, d, n)
    /\ UNCHANGED replacedGrant
DoRevokeAccess == \E s \in Addr, d \in Addr0 : revokeAccess(s, d)

Next ==
    \/ DoRegisterPatient
    \/ DoRegisterDoctor
    \/ DoVerifyDoctor
    \/ DoUpdateProfile
    \/ DoGetIdentity
    \/ DoTransferOwnership
    \/ DoRenounceOwnership
    \/ DoCreateRecord
    \/ DoToggleVisibility
    \/ DoVerifyRecord
    \/ DoGetRecord
    \/ DoGrantAccess
    \/ DoRevokeAccess
    \/ Tick

Spec == Init /\ [][Next]_vars

(***************************************************************************)
(* The identity contract on its own: the four mutators that                *)
(* HealthSecureIdentity declares and getIdentity, while the clock runs.    *)
(* The accounts 1..NumRegistrants register and update, with every id and   *)
(* profile CID and the hashes 1..NumDrawnHash; every account calls         *)
(* verifyDoctor and getIdentity; the deployer stays the owner.             *)
(***************************************************************************)
IdRegisterPatient ==
    \E s \in Registrants, h \in DrawnHashes, i \in Ids, c \in Cids :
        registerPatient(s, h, i, c)
IdRegisterDoctor ==
    \E s \in Registrants, h \in DrawnHashes, i \in Ids, c \in Cids :
        registerDoctor(s, h, i, c)
IdUpdateProfile == \E s \in Registrants, c \in Cids : updateProfile(s, c)

NextIdentity ==
    \/ IdRegisterPatient
    \/ IdRegisterDoctor
    \/ DoVerifyDoctor
    \/ IdUpdateProfile
    \/ DoGetIdentity
    \/ Tick

SpecIdentity == Init /\ [][NextIdentity]_vars

(***************************************************************************)
(* Registration and verification while the ownership of the identity       *)
(* contract changes hands: verifyDoctor and the two functions inherited    *)
(* from Ownable, called by every account.  Verification reads only the     *)
(* role and the flag of an identity, so each registrant registers with its *)
(* own credential hash and id and one profile CID, and the clock stands.   *)
(***************************************************************************)
OwnCredentials == Registrants \cap Hashes \cap Ids

AdmRegisterPatient == \E s \in OwnCredentials : registerPatient(s, s, s, 1)
AdmRegisterDoctor == \E s \in OwnCredentials : registerDoctor(s, s, s, 1)

NextAdmin ==
    \/ AdmRegisterPatient
    \/ AdmRegisterDoctor
    \/ DoVerifyDoctor
    \/ DoTransferOwnership
    \/ DoRenounceOwnership

SpecAdmin == Init /\ [][NextAdmin]_vars

(***************************************************************************)
(* The record registry with the identity and access-control calls that     *)
(* surround it.  The registry reads an identity only through               *)
(* isVerifiedDoctor and isPatient, so each registrant registers with its   *)
(* own credential hash and id and one profile CID; records carry one       *)
(* ipfsCid and one recordType, grants are permanent, and the clock stands. *)
(***************************************************************************)
RecRegisterPatient == \E s \in OwnCredentials : registerPatient(s, s, s, 1)
RecRegisterDoctor == \E s \in OwnCredentials : registerDoctor(s, s, s, 1)
RecCreateRecord ==
    \E s \in Addr, p \in Addr0, h \in DrawnHashes : createRecord(s, p, h, 1, 0)
RecGrantAccess ==
    /\ \E s \in Addr, d \in Addr0 : grantAccess(s, d, 0)
    /\ UNCHANGED replacedGrant

NextRecords ==
    \/ RecRegisterPatient
    \/ RecRegisterDoctor
    \/ DoVerifyDoctor
    \/ RecCreateRecord
    \/ DoToggleVisibility
    \/ DoVerifyRecord
    \/ DoGetRecord
    \/ RecGrantAccess
    \/ DoRevokeAccess

SpecRecords == Init /\ [][NextRecords]_vars

(***************************************************************************)
(* Access control with the identity calls it depends on, while the clock   *)
(* runs past the expiry of a grant.  AccessControl reads an identity only  *)
(* through isPatient and isVerifiedDoctor, so each account registers with  *)
(* its own credential hash, an id of its own and one profile CID: accounts *)
(* 1..NumRegistrants as patients, accounts 2..NumAddr as doctors, so that  *)
(* a patient can have two doctors and a doctor two patients.  AccessControl*)
(* never reads registeredAt, so the accounts register before the clock     *)
(* first advances.                                                         *)
(***************************************************************************)
AcRegisterPatient == now = 0 /\ \E s \in Registrants : registerPatient(s, s, s, 1)
AcRegisterDoctor == now = 0 /\ \E s \in Addr \ {1} : registerDoctor(s, s, s - 1, 1)
AcTick == Advance(MaxGrantTime)

NextAccess ==
    \/ AcRegisterPatient
    \/ AcRegisterDoctor
    \/ DoVerifyDoctor
    \/ DoGrantAccess
    \/ DoRevokeAccess
    \/ AcTick

SpecAccess == Init /\ [][NextAccess]_vars

(***************************************************************************)
(* Granting again: access control while the clock runs past the expiry of  *)
(* a grant, with one patient (account 1) and one doctor (account 2) that   *)
(* register before the clock first advances, and with the history of what  *)
(* each returned grantAccess overwrote.                                    *)
(***************************************************************************)
RaRegisterPatient == registerPatient(1, 1, 1, 1)
RgRegisterPatient == now = 0 /\ RaRegisterPatient
RgRegisterDoctor == now = 0 /\ registerDoctor(2, 2, 1, 1)

RgGrantAccess ==
    \E s \in Addr, d \in Addr0, n \in Durations :
        /\ grantAccess(s, d, n)
        /\ replacedGrant' = IF last'.err = OK THEN accessGrants[s][d] ELSE replacedGrant

NextRegrant ==
    \/ RgRegisterPatient
    \/ RgRegisterDoctor
    \/ DoVerifyDoctor
    \/ RgGrantAccess
    \/ DoRevokeAccess
    \/ AcTick

SpecRegrant == Init /\ [][NextRegrant]_vars

(***************************************************************************)
(* The reads of the three contracts, called in every state that a patient  *)
(* (account 1), a doctor (account 2) and the owner reach while the clock   *)
(* runs past the expiry of a grant.  The two accounts register and the     *)
(* doctor writes one record before the clock first advances.               *)
(***************************************************************************)
RdVerifyDoctor == \E d \in Addr : verifyDoctor(owner, d)
RdCreateRecord == now = 0 /\ recordCount = 0 /\ createRecord(2, 1, 1, 1, 0)
RdToggleVisibility == \E r \in RecIds : toggleVisibility(1, r)
RdGrantAccess == \E n \in Durations : grantAccess(1, 2, n) /\ UNCHANGED replacedGrant
RdRevokeAccess == revokeAccess(1, 2)

RdIdentityReads ==
    \/ \E s \in Addr, w \in Addr0 : getIdentity(s, w)
    \/ \E w \in Addr0 : isVerifiedDoctorCall(w) \/ isPatientCall(w)
    \/ \E i \in Ids : getPatientByHealthIdCall(i) \/ getDoctorByDoctorIdCall(i)
RdRecordReads ==
    \/ \E s \in Addr, r \in RecIds : getRecord(s, r)
    \/ \E s \in Addr, r \in RecIds, h \in DrawnHashes : verifyRecord(s, r, h)
    \/ \E a \in Addr0 : getPatientRecordIdsCall(a) \/ getDoctorRecordIdsCall(a)
    \/ \E a \in Addr0 : getVisiblePatientRecordsCall(a)
    \/ getTotalRecordsCall
RdAccessReads ==
    \/ \E p \in Addr0, d \in Addr0 : hasAccessCall(p, d) \/ getAccessGrantCall(p, d)
    \/ \E a \in Addr0 : getPatientDoctorsCall(a) \/ getDoctorPatientsCall(a)
    \/ \E d \in Addr0 : getActivePatientCountCall(d)

NextReads ==
    \/ RgRegisterPatient
    \/ RgRegisterDoctor
    \/ RdVerifyDoctor
    \/ RdCreateRecord
    \/ RdToggleVisibility
    \/ RdGrantAccess
    \/ RdRevokeAccess
    \/ RdIdentityReads
    \/ RdRecordReads
    \/ RdAccessReads
    \/ AcTick

SpecReads == Init /\ [][NextReads]_vars

(***************************************************************************)
(* The record registry while the clock runs: a patient (account 1) and a   *)
(* doctor (account 2) register before the clock first advances, and every  *)
(* account calls createRecord, with the hashes 1..NumDrawnHash, one        *)
(* ipfsCid and one recordType, and toggleVisibility.                       *)
(***************************************************************************)
NextAppend ==
    \/ RgRegisterPatient
    \/ RgRegisterDoctor
    \/ RdVerifyDoctor
    \/ RecCreateRecord
    \/ DoToggleVisibility
    \/ Tick

SpecAppend == Init /\ [][NextAppend]_vars

(***************************************************************************)
(* The record registry beside access control, with a patient, the doctor   *)
(* who writes the patient's records and a second doctor who holds a grant. *)
(* Account 1 registers as the patient and accounts 2..NumAddr as doctors,  *)
(* each with its own credential hash; records carry one hash, one ipfsCid  *)
(* and one recordType, grants are permanent, and the clock stands.         *)
(***************************************************************************)
RaCreateRecord == \E s \in Addr, p \in Addr0 : createRecord(s, p, 1, 1, 0)

NextRegistryAccess ==
    \/ RaRegisterPatient
    \/ AcRegisterDoctor
    \/ DoVerifyDoctor
    \/ RaCreateRecord
    \/ DoToggleVisibility
    \/ DoVerifyRecord
    \/ DoGetRecord
    \/ RecGrantAccess
    \/ DoRevokeAccess

SpecRegistryAccess == Init /\ [][NextRegistryAccess]_vars

(***************************************************************************)
(* The mutating functions of the three contracts together, with the events *)
(* they emit.  Each registrant registers with its own credential hash and  *)
(* id; records carry one ipfsCid and one recordType; the clock stands.     *)
(***************************************************************************)
NextMutators ==
    \/ RecRegisterPatient
    \/ RecRegisterDoctor
    \/ DoVerifyDoctor
    \/ DoUpdateProfile
    \/ RecCreateRecord
    \/ DoToggleVisibility
    \/ DoGrantAccess
    \/ DoRevokeAccess

SpecMutators == Init /\ [][NextMutators]_vars

(***************************************************************************)
(* The failures of the mutating functions: all eight mutators with the     *)
(* inputs that make every require fail at least once, and the checked      *)
(* addition of grantAccess overflow.  Every account registers, before the  *)
(* clock first advances, with its own hash or the hash of account 1, and   *)
(* with one id string and one profile CID, so that hashes and ids          *)
(* collide; every account calls the other functions;                       *)
(* records are created before the clock first advances; grants are         *)
(* permanent or take the largest uint256 as duration, which overflows once *)
(* the clock has advanced.                                                 *)
(***************************************************************************)
FlRegisterPatient ==
    /\ now = 0
    /\ \E s \in Addr : \E h \in {1, s} : registerPatient(s, h, 1, 1)
FlRegisterDoctor ==
    /\ now = 0
    /\ \E s \in Addr : \E h \in {1, s} : registerDoctor(s, h, 1, 1)

FlUpdateProfile == \E s \in Addr : updateProfile(s, 1)
FlCreateRecord == now = 0 /\ RaCreateRecord
FlGrantAccess ==
    /\ \E s \in Addr, d \in Addr0, n \in {0, UintMax} : grantAccess(s, d, n)
    /\ UNCHANGED replacedGrant

NextFailures ==
    \/ FlRegisterPatient
    \/ FlRegisterDoctor
    \/ DoVerifyDoctor
    \/ FlUpdateProfile
    \/ FlCreateRecord
    \/ DoToggleVisibility
    \/ FlGrantAccess
    \/ DoRevokeAccess
    \/ Tick

SpecFailures == Init /\ [][NextFailures]_vars

(***************************************************************************)
(* The record indexes: the registry with accounts 1..NumRegistrants as     *)
(* patients and accounts 2..NumAddr as doctors, so that the records        *)
(* spread over two per-patient lists or over two per-author lists.  Only   *)
(* the owner verifies; records carry one hash, one ipfsCid and one         *)
(* recordType; the clock stands.                                           *)
(***************************************************************************)
NextIndexes ==
    \/ AcRegisterPatient
    \/ AcRegisterDoctor
    \/ RdVerifyDoctor
    \/ RaCreateRecord
    \/ DoToggleVisibility

SpecIndexes == Init /\ [][NextIndexes]_vars

(***************************************************************************)
(* What the registry discloses: a patient (account 1), the doctors         *)
(* (accounts 2..NumAddr) and records with one hash, one ipfsCid and one    *)
(* recordType that any account may try to create and to toggle, read by    *)
(* every account through getRecord, verifyRecord with every candidate      *)
(* hash, the public getter of records and the three list functions.  The   *)
(* clock stands.                                                           *)
(***************************************************************************)
DiscRecordsGetter == \E r \in RecIds : recordsCall(r)
DiscLists ==
    \E a \in Addr0 :
        \/ getPatientRecordIdsCall(a)
        \/ getDoctorRecordIdsCall(a)
        \/ getVisiblePatientRecordsCall(a)

NextDisclosure ==
    \/ RaRegisterPatient
    \/ AcRegisterDoctor
    \/ RdVerifyDoctor
    \/ RaCreateRecord
    \/ DoToggleVisibility
    \/ DoGetRecord
    \/ DoVerifyRecord
    \/ DiscRecordsGetter
    \/ DiscLists

SpecDisclosure == Init /\ [][NextDisclosure]_vars

(***************************************************************************)
(* Claims about the record registry, checked under SpecRecords.  A step    *)
(* is a call f(args) exactly when the action formula f(args) holds of it,  *)
(* so "every call f(args) has outcome ..." is an action property.          *)
(***************************************************************************)

\* The step is some createRecord call.
CreateRecordStep ==
    /\ last'.op = "createRecord"
    /\ \E s \in Addr, p \in Addr0, h \in Hashes, c \in Cids, t \in RecordTypes :
          createRecord(s, p, h, c, t)

\* C1: createRecord(patient, hash, ref, type) called by c returns if and only
\* if c is a verified doctor and patient is a registered patient at call
\* time; it reverts with Unauthorized when c is not a verified doctor (also
\* when the patient is invalid too) and with InvalidPatient when c is a
\* verified doctor and patient is not a patient.  A returned call has stored
\* the record for that patient and author.
C1_Step ==
    last'.op = "createRecord" =>
    \A s \in Addr, p \in Addr0 :
        (\E h \in Hashes, c \in Cids, t \in RecordTypes : createRecord(s, p, h, c, t)) =>
            /\ (last'.err = OK) <=> (isVerifiedDoctor(s) /\ isPatient(p))
            /\ ~isVerifiedDoctor(s) => last'.err = "Unauthorized"
            /\ (isVerifiedDoctor(s) /\ ~isPatient(p)) => last'.err = "InvalidPatient"
            /\ last'.err = OK =>
                  /\ records'[recordCount].exists
                  /\ records'[recordCount].patient = p
                  /\ records'[recordCount].doctor = s
C1_CreateRecordAuthorization == [][C1_Step]_vars

\* A verified doctor has created a record and then called createRecord for
\* an address that is not a patient.
C1_Witness ==
    /\ recordCount > 0
    /\ last.op = "createRecord"
    /\ last.err = "InvalidPatient"

\* C2: record ids are gap-free and never reused.  recordCount equals the
\* number of createRecord calls that returned, a record exists at id exactly
\* when id < recordCount, the k-th returned createRecord returns k-1, a
\* reverted createRecord consumes no id, and no call rewrites the patient,
\* author or hash of an allocated id.
C2_Inv ==
    /\ recordCount = createdOk
    /\ \A id \in RecIds : records[id].exists <=> id < recordCount
C2_Step ==
    /\ CreateRecordStep =>
              IF last'.err = OK
              THEN /\ createdOk' = createdOk + 1
                   /\ last'.ret = createdOk' - 1
                   /\ ~records[last'.ret].exists
              ELSE /\ createdOk' = createdOk
                   /\ recordCount' = recordCount
                   /\ records' = records
    /\ \A id \in RecIds :
          records[id].exists =>
              /\ records'[id].exists
              /\ records'[id].patient = records[id].patient
              /\ records'[id].doctor = records[id].doctor
              /\ records'[id].recordHash = records[id].recordHash
C2_SequenceNumbers == []C2_Inv /\ [][C2_Step]_vars

\* Two records exist and a later createRecord has reverted.
C2_Witness ==
    /\ recordCount = 2
    /\ createdOk = 2
    /\ last.op = "createRecord"
    /\ last.err # OK

\* C3: getRecord(id) called by c reverts with NotFound for an unallocated id;
\* for an allocated id it returns if and only if c is the record's patient,
\* c is its author, or the record is visible, and otherwise reverts with
\* AccessDenied.
C3_Step ==
    last'.op = "getRecord" =>
    \A s \in Addr, r \in RecIds :
        getRecord(s, r) =>
            IF r >= recordCount
            THEN last'.err = "NotFound"
            ELSE /\ (last'.err = OK) <=>
                        \/ s = records[r].patient
                        \/ s = records[r].doctor
                        \/ records[r].isVisible
                 /\ last'.err \in {OK, "AccessDenied"}
C3_GetRecordAccess == [][C3_Step]_vars

\* A caller that is neither patient nor author was refused a hidden record.
C3_Witness ==
    /\ last.op = "getRecord"
    /\ last.err = "AccessDenied"
    /\ \E r \in RecIds : records[r].exists /\ ~records[r].isVisible

\* C4: a new record is visible; toggleVisibility(id) reverts with NotFound
\* for an unallocated id, reverts with Unauthorized for every caller other
\* than the record's patient (the author included), and for the patient
\* returns and flips the flag of that record and of no other.
C4_Step ==
    /\ (CreateRecordStep /\ last'.err = OK) => records'[recordCount].isVisible
    /\ last'.op = "toggleVisibility" =>
       \A s \in Addr, r \in RecIds :
          toggleVisibility(s, r) =>
              /\ r >= recordCount => (last'.err = "NotFound" /\ records' = records)
              /\ (r < recordCount /\ s # records[r].patient) =>
                    (last'.err = "Unauthorized" /\ records' = records)
              /\ (r < recordCount /\ s = records[r].doctor) =>
                    last'.err = "Unauthorized"
              /\ (r < recordCount /\ s = records[r].patient) =>
                    /\ last'.err = OK
                    /\ records'[r].isVisible = ~records[r].isVisible
                    /\ \A q \in RecIds \ {r} : records'[q] = records[q]
C4_ToggleVisibility == [][C4_Step]_vars

\* The patient has hidden a record.
C4_Witness ==
    /\ last.op = "toggleVisibility"
    /\ last.err = OK
    /\ \E r \in RecIds : records[r].exists /\ ~records[r].isVisible

\* C5: for an allocated id, verifyRecord(id, h) returns true if and only if
\* h is the hash passed to the createRecord call that allocated id, whatever
\* calls came in between; for an unallocated id it reverts with NotFound.
C5_Step ==
    last'.op = "verifyRecord" =>
    \A s \in Addr, r \in RecIds, h \in Hashes :
        verifyRecord(s, r, h) =>
            IF r >= recordCount
            THEN last'.err = "NotFound"
            ELSE /\ last'.err = OK
                 /\ last'.retBool <=> (h = createdHash[r])
C5_VerifyRecord == [][C5_Step]_vars

\* After a second record, a toggle and a grant, verifyRecord rejected a hash.
C5_Witness ==
    /\ last.op = "verifyRecord"
    /\ last.err = OK
    /\ ~last.retBool
    /\ recordCount = 2
    /\ \E r \in RecIds : records[r].exists /\ ~records[r].isVisible
    /\ \E p \in Addr, d \in Addr : accessGrants[p][d].exists

(***************************************************************************)
(* Claims about the identity contract, checked under SpecIdentity (C9      *)
(* under SpecAdmin).                                                       *)
(***************************************************************************)

\* Some identity holds the credential hash h.
HashHeld(h) == \E a \in Addr : identities[a].exists /\ identities[a].identityHash = h

\* The step is the call registerPatient(h, i, _) by s.
RegisterPatientStep(s, h, i) ==
    /\ last'.op = "registerPatient"
    /\ \E c \in Cids : registerPatient(s, h, i, c)

\* The step is the call registerDoctor(h, i, _) by s.
RegisterDoctorStep(s, h, i) ==
    /\ last'.op = "registerDoctor"
    /\ \E c \in Cids : registerDoctor(s, h, i, c)

\* C6: a principal has at most one identity.  Once a registerPatient or
\* registerDoctor call by a principal has returned, every later
\* registerPatient or registerDoctor call by it reverts with
\* AlreadyRegistered, whatever the arguments: also with a hash that is in
\* use (no DuplicateCredential) or an id that is in use (no DuplicateHealthId
\* or DuplicateDoctorId).
C6_Step ==
    last'.op \in {"registerPatient", "registerDoctor"} =>
    \A s \in Addr, h \in Hashes, i \in Ids :
        (RegisterPatientStep(s, h, i) \/ RegisterDoctorStep(s, h, i)) =>
            /\ s \in registered => last'.err = "AlreadyRegistered"
            /\ last'.err = OK => s \notin registered
C6_OneIdentity == [][C6_Step]_vars

\* A registered principal tried to register again while another identity
\* exists whose hash and id it could have reused.
C6_Witness ==
    /\ last.op \in {"registerPatient", "registerDoctor"}
    /\ last.err = "AlreadyRegistered"
    /\ Cardinality(registered) = 2

\* C7: the credential hash is unique across both roles.  No two principals
\* hold identities with the same hash; a registerPatient or registerDoctor
\* call by an unregistered principal with a hash some identity holds reverts
\* with DuplicateCredential; a call by an unregistered principal with a free
\* hash and a free id returns and then holds the hash.  So of two
\* registrations with one hash, each valid on its own, exactly the one
\* sequenced first returns.
C7_Inv ==
    \A a \in Addr, b \in Addr :
        (a # b /\ identities[a].exists /\ identities[b].exists) =>
            identities[a].identityHash # identities[b].identityHash
C7_Step ==
    last'.op \in {"registerPatient", "registerDoctor"} =>
    \A s \in Addr, h \in Hashes, i \in Ids :
        (RegisterPatientStep(s, h, i) \/ RegisterDoctorStep(s, h, i)) =>
            /\ (~identities[s].exists /\ HashHeld(h)) => last'.err = "DuplicateCredential"
            /\ (/\ ~identities[s].exists
                /\ ~HashHeld(h)
                /\ RegisterPatientStep(s, h, i) => getPatientByHealthId(i) = ZeroAddr
                /\ RegisterDoctorStep(s, h, i) => getDoctorByDoctorId(i) = ZeroAddr)
                  => last'.err = OK
            /\ last'.err = OK =>
                  /\ ~HashHeld(h)
                  /\ identities'[s].exists
                  /\ identities'[s].identityHash = h
C7_UniqueCredential == []C7_Inv /\ [][C7_Step]_vars

\* An unregistered principal was refused a hash that a doctor holds.
C7_Witness ==
    /\ last.op = "registerPatient"
    /\ last.err = "DuplicateCredential"
    /\ \E d \in Addr : identities[d].role = DOCTOR

\* C8: healthId and doctorId each map to one principal, for good.  A
\* registration with an id that is already assigned reverts (with
\* DuplicateHealthId or DuplicateDoctorId when the sender is unregistered and
\* the hash is free, the two checks that come first); a returned registration
\* makes the lookup of its id return the sender; an assigned id resolves to
\* the same principal in every later state; and no principal is the target
\* of two healthIds or of two doctorIds.
C8_Inv ==
    \A i \in Ids, j \in Ids :
        i # j =>
            /\ getPatientByHealthId(i) # ZeroAddr =>
                  getPatientByHealthId(i) # getPatientByHealthId(j)
            /\ getDoctorByDoctorId(i) # ZeroAddr =>
                  getDoctorByDoctorId(i) # getDoctorByDoctorId(j)
C8_Step ==
    /\ \A i \in Ids :
          /\ healthIdToAddress[i] # ZeroAddr => healthIdToAddress'[i] = healthIdToAddress[i]
          /\ doctorIdToAddress[i] # ZeroAddr => doctorIdToAddress'[i] = doctorIdToAddress[i]
    /\ last'.op \in {"registerPatient", "registerDoctor"} =>
       \A s \in Addr, h \in Hashes, i \in Ids :
          /\ RegisterPatientStep(s, h, i) =>
                /\ healthIdToAddress[i] # ZeroAddr =>
                      /\ last'.err # OK
                      /\ (~identities[s].exists /\ ~HashHeld(h)) =>
                            last'.err = "DuplicateHealthId"
                /\ last'.err = OK => healthIdToAddress'[i] = s
          /\ RegisterDoctorStep(s, h, i) =>
                /\ doctorIdToAddress[i] # ZeroAddr =>
                      /\ last'.err # OK
                      /\ (~identities[s].exists /\ ~HashHeld(h)) =>
                            last'.err = "DuplicateDoctorId"
                /\ last'.err = OK => doctorIdToAddress'[i] = s
C8_UniqueIds == []C8_Inv /\ [][C8_Step]_vars

\* A second patient was refused a healthId that is assigned.
C8_Witness ==
    /\ last.op = "registerPatient"
    /\ last.err = "DuplicateHealthId"
    /\ \E i \in Ids : getPatientByHealthId(i) # ZeroAddr

\* C9: a doctor is unverified right after registerDoctor; isVerifiedDoctor(d)
\* holds only if a verifyDoctor(d) call by the owner has returned before; a
\* further verifyDoctor(d) by the owner reverts with AlreadyVerified.
C9_Inv == \A d \in Addr0 : isVerifiedDoctor(d) => d \in verifiedByOwner
C9_Step ==
    /\ \A s \in Addr, h \in Hashes, i \in Ids :
          (RegisterDoctorStep(s, h, i) /\ last'.err = OK) =>
              /\ ~identities'[s].isVerified
              /\ s \notin verifiedByOwner'
    /\ last'.op = "verifyDoctor" =>
          \A s \in Addr, d \in Addr0 :
              (verifyDoctor(s, d) /\ s = owner /\ d \in verifiedByOwner) =>
                  last'.err = "AlreadyVerified"
C9_DoctorVerification == []C9_Inv /\ [][C9_Step]_vars

\* The owner called verifyDoctor for a doctor it had verified.
C9_Witness ==
    /\ last.op = "verifyDoctor"
    /\ last.err = "AlreadyVerified"
    /\ \E d \in Addr : isVerifiedDoctor(d)

\* C10: an identity, once it exists, keeps its role, credential hash and
\* registration time and is never removed; its verified flag never goes from
\* true to false; and a patient is verified from registration on.
C10_Inv ==
    \A a \in Addr :
        (identities[a].exists /\ identities[a].role = PATIENT) => identities[a].isVerified
C10_Step ==
    \A a \in Addr :
        identities[a].exists =>
            /\ identities'[a].exists
            /\ identities'[a].role = identities[a].role
            /\ identities'[a].identityHash = identities[a].identityHash
            /\ identities'[a].registeredAt = identities[a].registeredAt
            /\ identities[a].isVerified => identities'[a].isVerified
C10_IdentityIrreversible == []C10_Inv /\ [][C10_Step]_vars

\* An identity registered at an earlier time has had its profile updated,
\* and a doctor has been verified.
C10_Witness ==
    /\ last.op = "updateProfile"
    /\ last.err = OK
    /\ \E a \in Addr : identities[a].exists /\ identities[a].registeredAt < now
    /\ \E d \in Addr : isVerifiedDoctor(d)

\* C20: a registerPatient(h, healthId, ref) call by c that returns leaves
\* getIdentity(c) = (h, PATIENT, ref, verified = true, registeredAt = now)
\* and the reverse entries h -> c and healthId -> c; registerDoctor likewise
\* with DOCTOR, verified = false and doctorId -> c; getIdentity(w) reverts
\* with NotFound for every w that has never registered and else returns the
\* stored identity of w.
C20_Step ==
    /\ (last'.op = "registerPatient" /\ last'.err = OK) =>
          \A c \in Addr, h \in Hashes, i \in Ids, ref \in Cids :
              registerPatient(c, h, i, ref) =>
                  /\ ~identities[c].exists
                  /\ identities'[c].exists
                  /\ getIdentityRet(c)' = <<h, PATIENT, ref, TRUE, now>>
                  /\ hashToAddress'[h] = c
                  /\ getPatientByHealthId(i)' = c
    /\ (last'.op = "registerDoctor" /\ last'.err = OK) =>
          \A c \in Addr, h \in Hashes, i \in Ids, ref \in Cids :
              registerDoctor(c, h, i, ref) =>
                  /\ ~identities[c].exists
                  /\ identities'[c].exists
                  /\ getIdentityRet(c)' = <<h, DOCTOR, ref, FALSE, now>>
                  /\ hashToAddress'[h] = c
                  /\ getDoctorByDoctorId(i)' = c
    /\ last'.op = "getIdentity" =>
          \A s \in Addr, w \in Addr0 :
              getIdentity(s, w) =>
                  IF w \in registered
                  THEN last'.err = OK /\ last'.ret = getIdentityRet(w)
                  ELSE last'.err = "NotFound"
C20_Registration == [][C20_Step]_vars

\* getIdentity returned the identity of a doctor that registered after the
\* clock had advanced, while a patient is registered too.
C20_Witness ==
    /\ last.op = "getIdentity"
    /\ last.err = OK
    /\ last.ret[2] = DOCTOR
    /\ last.ret[5] > 0
    /\ \E a \in Addr : isPatient(a)

(***************************************************************************)
(* Claims about the administrator, checked under SpecAdmin.                *)
(***************************************************************************)

\* C11: verifyDoctor(x) is rejected for every caller other than the owner,
\* whatever x is.  Called by the owner it reverts with NotFound if x has no
\* identity, else with WrongRole if x is not a doctor (so for a patient,
\* whose flag is true, WrongRole and not AlreadyVerified), else with
\* AlreadyVerified if x is verified, and otherwise returns, having changed
\* nothing but the verified flag of x, which is now true.
C11_Step ==
    last'.op = "verifyDoctor" =>
    \A s \in Addr, x \in Addr0 :
        verifyDoctor(s, x) =>
            /\ s # owner =>
                  /\ last'.err = "OwnableUnauthorizedAccount"
                  /\ identities' = identities
            /\ s = owner =>
                  last'.err =
                      IF ~identities[x].exists THEN "NotFound"
                      ELSE IF identities[x].role # DOCTOR THEN "WrongRole"
                      ELSE IF identities[x].isVerified THEN "AlreadyVerified"
                      ELSE OK
            /\ (s = owner /\ isPatient(x)) =>
                  (identities[x].isVerified /\ last'.err = "WrongRole")
            /\ last'.err = OK =>
                  /\ ~identities[x].isVerified
                  /\ identities'[x] = [identities[x] EXCEPT !.isVerified = TRUE]
                  /\ \A a \in Addr0 \ {x} : identities'[a] = identities[a]
                  /\ UNCHANGED <<owner, hashToAddress, healthIdToAddress, doctorIdToAddress>>
                  /\ UNCHANGED <<recVars, acVars>>
C11_VerifyDoctorErrors == [][C11_Step]_vars

\* The owner called verifyDoctor for a patient, while a verified doctor exists.
C11_Witness ==
    /\ last.op = "verifyDoctor"
    /\ last.err = "WrongRole"
    /\ \E a \in Addr : isPatient(a)
    /\ \E d \in Addr : isVerifiedDoctor(d)

\* C12 as stated: the deployer set in the constructor is the principal
\* authorized to call verifyDoctor after any sequence of calls, those
\* inherited from Ownable included: a verifyDoctor call by the deployer is
\* never rejected by the owner check, and no verifyDoctor call by another
\* principal ever returns.
C12_OriginalStep ==
    last'.op = "verifyDoctor" =>
    \A s \in Addr, x \in Addr0 :
        verifyDoctor(s, x) =>
            /\ last'.err = OK => s = Deployer
            /\ s = Deployer => last'.err # "OwnableUnauthorizedAccount"
C12_AdministratorImmutable == [][C12_OriginalStep]_vars

\* C12, amended: the owner is the deployer after construction; a
\* verifyDoctor call returns only for the principal that is the owner at the
\* time of the call; and the owner changes only in a transferOwnership or
\* renounceOwnership call that the owner of that time makes and that returns.
C12_Step ==
    /\ last'.op = "verifyDoctor" =>
          \A s \in Addr, x \in Addr0 :
              (verifyDoctor(s, x) /\ last'.err = OK) => s = owner
    /\ owner' # owner =>
          /\ last'.err = OK
          /\ \/ \E n \in Addr : transferOwnership(owner, n) /\ owner' = n
             \/ renounceOwnership(owner) /\ owner' = ZeroAddr
    /\ last'.op \in {"transferOwnership", "renounceOwnership"} =>
          \A s \in Addr \ {owner} :
              ((\E n \in Addr0 : transferOwnership(s, n)) \/ renounceOwnership(s)) =>
                  (last'.err # OK /\ owner' = owner)
C12_AdministratorIsOwner == (owner = Deployer) /\ [][C12_Step]_vars

\* The ownership has been transferred and the new owner has verified a doctor.
C12_Witness ==
    /\ owner \in Addr \ {Deployer}
    /\ last.op = "verifyDoctor"
    /\ last.err = OK

(***************************************************************************)
(* Claims about access control, checked under SpecAccess.                  *)
(***************************************************************************)

\* The elements of a list.
Elems(list) == {list[k] : k \in 1 .. Len(list)}

\* The list holds no address twice.
NoDuplicates(list) ==
    \A j \in 1 .. Len(list), k \in 1 .. Len(list) : list[j] = list[k] => j = k

\* The step is a grantAccess(d, _) call by p that returns.
GrantReturns(p, d) ==
    /\ last'.op = "grantAccess"
    /\ last'.err = OK
    /\ \E n \in Durations : grantAccess(p, d, n)

\* C13: grantAccess(doctor, durationSeconds) called by c reverts with
\* Unauthorized when c is not a patient (also when the doctor is invalid
\* too) and with InvalidTarget when c is a patient and doctor is not a
\* verified doctor, and with neither otherwise; a returned call leaves the
\* grant of (c, doctor) with granted = true, grantedAt = now and expiresAt =
\* now + durationSeconds if durationSeconds > 0 and else 0, and
\* hasAccess(c, doctor) holds at that time.
C13_Step ==
    last'.op = "grantAccess" =>
    \A c \in Addr, d \in Addr0 :
        /\ (last'.err # OK /\ \E n \in Durations : grantAccess(c, d, n)) =>
              /\ ~isPatient(c) => last'.err = "Unauthorized"
              /\ (isPatient(c) /\ ~isVerifiedDoctor(d)) => last'.err = "InvalidTarget"
              /\ (isPatient(c) /\ isVerifiedDoctor(d)) =>
                    last'.err \notin {"Unauthorized", "InvalidTarget"}
        /\ last'.err = OK =>
              \A n \in Durations :
                  grantAccess(c, d, n) =>
                      /\ isPatient(c)
                      /\ isVerifiedDoctor(d)
                      /\ storedGrant(c, d)'.exists
                      /\ storedGrant(c, d)'.isGranted
                      /\ storedGrant(c, d)'.grantedAt = now
                      /\ storedGrant(c, d)'.expiresAt = IF n > 0 THEN now + n ELSE 0
                      /\ hasAccess(c, d)'
C13_GrantAccess == [][C13_Step]_vars

\* A patient has granted a time-limited access to a verified doctor after
\* the clock had advanced.
C13_Witness ==
    /\ last.op = "grantAccess"
    /\ last.err = OK
    /\ now > 0
    /\ \E p \in Addr, d \in Addr :
          /\ storedGrant(p, d).grantedAt = now
          /\ storedGrant(p, d).expiresAt > now

\* C14: hasAccess(P, D) at time now is: the grant exists, is granted, and
\* expiresAt = 0 or now <= expiresAt.  It holds right after a returned
\* grantAccess(D, n) with n > 0; as the clock advances with no call it keeps
\* holding up to now = expiresAt and stops holding once now > expiresAt; it
\* starts to hold only in a returned grantAccess(D, _) by P; and a grant with
\* expiresAt = 0 that is not written keeps giving access.
C14_Inv ==
    \A p \in Addr0, d \in Addr0 :
        hasAccess(p, d) <=>
            /\ storedGrant(p, d).exists
            /\ storedGrant(p, d).isGranted
            /\ storedGrant(p, d).expiresAt = 0 \/ now <= storedGrant(p, d).expiresAt
C14_Step ==
    \A p \in Addr, d \in Addr :
        /\ (GrantReturns(p, d) /\ storedGrant(p, d)'.expiresAt > 0) => hasAccess(p, d)'
        /\ (now' > now /\ hasAccess(p, d)) =>
              /\ accessGrants' = accessGrants
              /\ hasAccess(p, d)' <=>
                     \/ storedGrant(p, d).expiresAt = 0
                     \/ now' <= storedGrant(p, d).expiresAt
        /\ (~hasAccess(p, d) /\ hasAccess(p, d)') => GrantReturns(p, d)
        /\ (/\ hasAccess(p, d)
            /\ storedGrant(p, d).expiresAt = 0
            /\ storedGrant(p, d)' = storedGrant(p, d)) => hasAccess(p, d)'
C14_HasAccessExpiry == []C14_Inv /\ [][C14_Step]_vars

\* A time-limited grant has expired by the clock alone while a permanent
\* grant of the same patient still gives access.
C14_Witness ==
    \E p \in Addr, d \in Addr, e \in Addr :
        /\ storedGrant(p, d).isGranted
        /\ storedGrant(p, d).expiresAt > 0
        /\ now > storedGrant(p, d).expiresAt
        /\ ~hasAccess(p, d)
        /\ storedGrant(p, e).expiresAt = 0
        /\ storedGrant(p, e).grantedAt < now
        /\ hasAccess(p, e)

\* C15: a returned revokeAccess(D) by P leaves hasAccess(P, D) false at once,
\* whether the grant was permanent or unexpired, and it stays false until a
\* grantAccess(D, _) call by P returns; the revocation keeps grantedAt and
\* expiresAt and both index lists, which still hold the pair.
C15_Step ==
    /\ last'.op = "revokeAccess" =>
          \A p \in Addr, d \in Addr0 :
              (revokeAccess(p, d) /\ last'.err = OK) =>
                  /\ ~hasAccess(p, d)'
                  /\ storedGrant(p, d)'.grantedAt = storedGrant(p, d).grantedAt
                  /\ storedGrant(p, d)'.expiresAt = storedGrant(p, d).expiresAt
                  /\ getPatientDoctors(p)' = getPatientDoctors(p)
                  /\ getDoctorPatients(d)' = getDoctorPatients(d)
                  /\ d \in Elems(getPatientDoctors(p)')
                  /\ p \in Elems(getDoctorPatients(d)')
    /\ \A p \in Addr, d \in Addr :
          (/\ storedGrant(p, d).exists
           /\ ~storedGrant(p, d).isGranted
           /\ ~GrantReturns(p, d)) =>
              /\ ~storedGrant(p, d)'.isGranted
              /\ ~hasAccess(p, d)'
C15_RevokeAccess == [][C15_Step]_vars

\* A patient has revoked a permanent grant that had given access for a while.
C15_Witness ==
    /\ last.op = "revokeAccess"
    /\ last.err = OK
    /\ \E p \in Addr, d \in Addr :
          /\ emitted = <<AccessRevoked(p, d, now)>>
          /\ storedGrant(p, d).expiresAt = 0
          /\ storedGrant(p, d).grantedAt < now
          /\ ~hasAccess(p, d)

\* C16: no index list holds an address twice.  A returned grantAccess for a
\* pair (P, D) that is in no list yet appends D at the end of P's list and P
\* at the end of D's list; a returned grantAccess for a pair that is in the
\* lists (expired or not, revoked or not) changes no list; and no other call
\* changes a list.  A pair is in the lists exactly when its grant exists.
C16_Inv ==
    /\ \A a \in Addr0 :
          NoDuplicates(getPatientDoctors(a)) /\ NoDuplicates(getDoctorPatients(a))
    /\ \A p \in Addr0, d \in Addr0 :
          /\ d \in Elems(getPatientDoctors(p)) <=> storedGrant(p, d).exists
          /\ p \in Elems(getDoctorPatients(d)) <=> storedGrant(p, d).exists
C16_Step ==
    /\ \A p \in Addr, d \in Addr :
          GrantReturns(p, d) =>
              IF d \in Elems(getPatientDoctors(p))
              THEN /\ patientDoctors' = patientDoctors
                   /\ doctorPatients' = doctorPatients
              ELSE /\ patientDoctors' =
                         [patientDoctors EXCEPT ![p] = Append(getPatientDoctors(p), d)]
                   /\ doctorPatients' =
                         [doctorPatients EXCEPT ![d] = Append(getDoctorPatients(d), p)]
    /\ (last'.op # "grantAccess" \/ last'.err # OK) =>
          /\ patientDoctors' = patientDoctors
          /\ doctorPatients' = doctorPatients
C16_NoDuplicateGrantees == []C16_Inv /\ [][C16_Step]_vars

\* A patient with two doctors in the list has granted again to the doctor
\* that was listed first.
C16_Witness ==
    /\ last.op = "grantAccess"
    /\ last.err = OK
    /\ \E p \in Addr :
          /\ Len(getPatientDoctors(p)) = 2
          /\ Len(emitted) = 1
          /\ emitted[1].patient = p
          /\ emitted[1].doctor = getPatientDoctors(p)[1]

\* C17: revokeAccess(doctor) reverts with Unauthorized when the caller is not
\* a patient and with NotFound when the caller is a patient and no grant
\* exists for (caller, doctor); a grant, once it exists, exists for good, and
\* every revokeAccess by the patient then returns (also when the grant is
\* revoked or expired already), whatever the doctor's identity is, and
\* leaves granted = false.
C17_Step ==
    /\ \A p \in Addr0, d \in Addr0 :
          storedGrant(p, d).exists => storedGrant(p, d)'.exists
    /\ last'.op = "revokeAccess" =>
          \A c \in Addr, d \in Addr0 :
              revokeAccess(c, d) =>
                  /\ ~isPatient(c) => last'.err = "Unauthorized"
                  /\ (isPatient(c) /\ ~storedGrant(c, d).exists) =>
                        last'.err = "NotFound"
                  /\ (isPatient(c) /\ storedGrant(c, d).exists) =>
                        /\ last'.err = OK
                        /\ ~storedGrant(c, d)'.isGranted
C17_RevokeAccessErrors == [][C17_Step]_vars

\* A patient has revoked a grant that had expired before.
C17_Witness ==
    /\ last.op = "revokeAccess"
    /\ last.err = OK
    /\ \E p \in Addr, d \in Addr :
          /\ emitted = <<AccessRevoked(p, d, now)>>
          /\ storedGrant(p, d).expiresAt > 0
          /\ now > storedGrant(p, d).expiresAt

(***************************************************************************)
(* Claims about failed calls (under SpecFailures) and about events (under  *)
(* SpecMutators).                                                          *)
(***************************************************************************)

\* The functions of the three contracts that write storage.
Mutators ==
    {"registerPatient", "registerDoctor", "verifyDoctor", "updateProfile",
     "createRecord", "toggleVisibility", "grantAccess", "revokeAccess"}

\* The number of events in a list that carry the given name.
CountEvents(events, name) ==
    Cardinality({k \in 1 .. Len(events) : events[k].name = name})

\* The failures of the mutating functions: the reverts of their requires and
\* of onlyOwner, and the panic of the checked addition in grantAccess.
Failures ==
    {<<"registerPatient", "AlreadyRegistered">>,
     <<"registerPatient", "DuplicateCredential">>,
     <<"registerPatient", "DuplicateHealthId">>,
     <<"registerDoctor", "AlreadyRegistered">>,
     <<"registerDoctor", "DuplicateCredential">>,
     <<"registerDoctor", "DuplicateDoctorId">>,
     <<"verifyDoctor", "OwnableUnauthorizedAccount">>,
     <<"verifyDoctor", "NotFound">>,
     <<"verifyDoctor", "WrongRole">>,
     <<"verifyDoctor", "AlreadyVerified">>,
     <<"updateProfile", "NotRegistered">>,
     <<"createRecord", "Unauthorized">>,
     <<"createRecord", "InvalidPatient">>,
     <<"toggleVisibility", "NotFound">>,
     <<"toggleVisibility", "Unauthorized">>,
     <<"grantAccess", "Unauthorized">>,
     <<"grantAccess", "InvalidTarget">>,
     <<"grantAccess", "Panic">>,
     <<"revokeAccess", "Unauthorized">>,
     <<"revokeAccess", "NotFound">>}

\* C18: a call of a mutating function that fails, whatever the failure (a
\* require, onlyOwner, or the overflow of the checked addition), leaves the
\* storage of all three contracts (owner, identities, the three lookup
\* maps, records, recordCount, both record index lists, grants and both
\* grant index lists) as it was before the call, and emits no event.
\* Every failure is one of those listed above: no function reports a
\* rejected call in another way.
C18_Step ==
    (last'.op \in Mutators /\ last'.err # OK) =>
        /\ <<last'.op, last'.err>> \in Failures
        /\ owner' = owner
        /\ identities' = identities
        /\ hashToAddress' = hashToAddress
        /\ healthIdToAddress' = healthIdToAddress
        /\ doctorIdToAddress' = doctorIdToAddress
        /\ records' = records
        /\ recordCount' = recordCount
        /\ patientRecords' = patientRecords
        /\ doctorRecords' = doctorRecords
        /\ accessGrants' = accessGrants
        /\ patientDoctors' = patientDoctors
        /\ doctorPatients' = doctorPatients
        /\ emitted' = <<>>
C18_CheckThenCommit == [][C18_Step]_vars

\* grantAccess has just failed in the checked addition, not in a require,
\* while a record, one of them hidden, and a grant are stored.
C18_Witness ==
    /\ last.op = "grantAccess"
    /\ last.err = "Panic"
    /\ recordCount >= 1
    /\ \E r \in RecIds : records[r].exists /\ ~records[r].isVisible
    /\ \E p \in Addr, d \in Addr : storedGrant(p, d).exists

\* C19: a mutating call that returns emits its events in this order and with
\* the values the storage holds after the call: registerPatient emits
\* IdentityRegistered then HealthIdLinked, registerDoctor IdentityRegistered
\* then DoctorIdLinked; verifyDoctor, updateProfile, createRecord,
\* grantAccess, revokeAccess and toggleVisibility emit one event each, the
\* one of toggleVisibility with the flag as it is after the flip; and the
\* number of RecordCreated events emitted so far equals recordCount.
C19_Inv == recordCreatedEvents = recordCount
C19_Step ==
    /\ recordCreatedEvents' =
          recordCreatedEvents + CountEvents(emitted', "RecordCreated")
    /\ (last'.op = "registerPatient" /\ last'.err = OK) =>
          \A s \in Addr, h \in Hashes, i \in Ids :
              RegisterPatientStep(s, h, i) =>
                  /\ emitted' = <<IdentityRegistered(s, identities'[s].identityHash,
                                      identities'[s].role, identities'[s].registeredAt),
                                   HealthIdLinked(s, i)>>
                  /\ getPatientByHealthId(i)' = s
    /\ (last'.op = "registerDoctor" /\ last'.err = OK) =>
          \A s \in Addr, h \in Hashes, i \in Ids :
              RegisterDoctorStep(s, h, i) =>
                  /\ emitted' = <<IdentityRegistered(s, identities'[s].identityHash,
                                      identities'[s].role, identities'[s].registeredAt),
                                   DoctorIdLinked(s, i)>>
                  /\ getDoctorByDoctorId(i)' = s
    /\ (last'.op = "verifyDoctor" /\ last'.err = OK) =>
          \A s \in Addr, d \in Addr :
              verifyDoctor(s, d) =>
                  (emitted' = <<DoctorVerified(d, now)>> /\ identities'[d].isVerified)
    /\ (last'.op = "updateProfile" /\ last'.err = OK) =>
          \A s \in Addr, c \in Cids :
              updateProfile(s, c) =>
                  emitted' = <<ProfileUpdated(s, identities'[s].profileCid)>>
    /\ (CreateRecordStep /\ last'.err = OK) =>
          emitted' = <<RecordCreated(last'.ret, records'[last'.ret].patient,
                          records'[last'.ret].doctor, records'[last'.ret].recordHash,
                          records'[last'.ret].ipfsCid, records'[last'.ret].recordType,
                          records'[last'.ret].createdAt)>>
    /\ (last'.op = "toggleVisibility" /\ last'.err = OK) =>
          \A s \in Addr, r \in RecIds :
              toggleVisibility(s, r) =>
                  emitted' = <<RecordVisibilityChanged(r, s, records'[r].isVisible, now)>>
    /\ (last'.op = "grantAccess" /\ last'.err = OK) =>
          \A s \in Addr, d \in Addr :
              (\E n \in Durations : grantAccess(s, d, n)) =>
                  emitted' = <<AccessGranted(s, d, storedGrant(s, d)'.grantedAt,
                                  storedGrant(s, d)'.expiresAt)>>
    /\ (last'.op = "revokeAccess" /\ last'.err = OK) =>
          \A s \in Addr, d \in Addr :
              revokeAccess(s, d) => emitted' = <<AccessRevoked(s, d, now)>>
C19_Events == []C19_Inv /\ [][C19_Step]_vars

\* The patient has shown a hidden record again: the event carries
\* isVisible = true, and two RecordCreated events have been emitted.
C19_Witness ==
    /\ last.op = "toggleVisibility"
    /\ last.err = OK
    /\ Len(emitted) = 1
    /\ emitted[1].name = "RecordVisibilityChanged"
    /\ emitted[1].isVisible
    /\ recordCreatedEvents = 2

(***************************************************************************)
(* Claims about the reads of access control, checked under SpecAccess.     *)
(***************************************************************************)

\* C21: in every reachable state, for all addresses p and d (address(0) and
\* pairs with no grant included), the flag getAccessGrant(p, d) returns
\* equals hasAccess(p, d), the grantedAt and expiresAt it returns are the
\* stored values, and the isExpired it returns is (expiresAt > 0 and now >
\* expiresAt), also for a grant that has been revoked.
C21_Inv ==
    \A p \in Addr0, d \in Addr0 :
        /\ getAccessGrant(p, d).isGranted = hasAccess(p, d)
        /\ getAccessGrant(p, d).grantedAt = storedGrant(p, d).grantedAt
        /\ getAccessGrant(p, d).expiresAt = storedGrant(p, d).expiresAt
        /\ getAccessGrant(p, d).isExpired =
              (storedGrant(p, d).expiresAt > 0 /\ now > storedGrant(p, d).expiresAt)
C21_GetAccessGrant == []C21_Inv

\* A grant that was revoked has passed its expiry, so it is reported expired
\* and not granted, while another grant is stored as granted and has expired.
C21_Witness ==
    \E p \in Addr, d \in Addr, e \in Addr :
        /\ storedGrant(p, d).exists
        /\ ~storedGrant(p, d).isGranted
        /\ getAccessGrant(p, d).isExpired
        /\ ~getAccessGrant(p, d).isGranted
        /\ storedGrant(p, e).isGranted
        /\ getAccessGrant(p, e).isExpired
        /\ ~getAccessGrant(p, e).isGranted

\* C22: in every reachable state getActivePatientCount(d) is the number of
\* distinct addresses p for which hasAccess(p, d) holds: no pair that gives
\* access is missed and none is counted twice; so the count never exceeds
\* the length of getDoctorPatients(d).
C22_Inv ==
    \A d \in Addr0 :
        /\ getActivePatientCount(d) = Cardinality({p \in Addr0 : hasAccess(p, d)})
        /\ getActivePatientCount(d) <= Len(getDoctorPatients(d))
C22_ActivePatientCount == []C22_Inv

\* A doctor has two patients in the list; the grant of one has expired and
\* the grant of the other gives access, so the count is one.
C22_Witness ==
    \E d \in Addr, p \in Addr, q \in Addr :
        /\ getDoctorPatients(d) = <<p, q>>
        /\ storedGrant(p, d).isGranted
        /\ ~hasAccess(p, d)
        /\ hasAccess(q, d)
        /\ getActivePatientCount(d) = 1

(***************************************************************************)
(* Claims about the lists of the record registry, checked under            *)
(* SpecRecords.                                                            *)
(***************************************************************************)

\* The record with this id is visible.
VisibleNow(id) == records[id].isVisible

\* C23: in every reachable state and for every address,
\* getVisiblePatientRecords(patient) is the subsequence of
\* getPatientRecordIds(patient) of the ids whose isVisible flag is true: in
\* the same relative order, with no id left out and none added; it is empty
\* for an address with no records.
C23_Inv ==
    \A p \in Addr0 :
        /\ getVisiblePatientRecords(p) = SelectSeq(getPatientRecordIds(p), VisibleNow)
        /\ Elems(getVisiblePatientRecords(p)) =
              {id \in Elems(getPatientRecordIds(p)) : records[id].isVisible}
        /\ getPatientRecordIds(p) = <<>> => getVisiblePatientRecords(p) = <<>>
C23_VisiblePatientRecords == []C23_Inv

\* A patient has two records, has hidden the first, and the visible list
\* holds the second alone.
C23_Witness ==
    \E p \in Addr :
        /\ Len(getPatientRecordIds(p)) = 2
        /\ ~records[getPatientRecordIds(p)[1]].isVisible
        /\ getVisiblePatientRecords(p) = <<getPatientRecordIds(p)[2]>>

(***************************************************************************)
(* The record registry and access control, checked under                   *)
(* SpecRegistryAccess.                                                     *)
(***************************************************************************)

\* C24: the outcome of every record-registry call is a function of the
\* caller, the arguments and the identity and registry storage alone, so two
\* states that differ only in the grants and the index lists of access
\* control give the same outcome: createRecord, toggleVisibility,
\* verifyRecord and getRecord end as the registry's own checks say, whatever
\* grants are stored.  A doctor to whom the patient has granted access is
\* refused a hidden record of that patient that another doctor wrote, with
\* AccessDenied.  grantAccess and revokeAccess change neither the registry
\* storage nor what its list reads return.
C24_Step ==
    /\ last'.op = "getRecord" =>
          \A s \in Addr, r \in RecIds :
              getRecord(s, r) =>
                  /\ last'.err =
                        IF ~records[r].exists THEN "NotFound"
                        ELSE IF \/ s = records[r].patient
                                \/ s = records[r].doctor
                                \/ records[r].isVisible THEN OK
                        ELSE "AccessDenied"
                  /\ last'.ret = IF last'.err = OK THEN getRecordRet(r) ELSE 0
                  /\ (/\ records[r].exists
                      /\ hasAccess(records[r].patient, s)
                      /\ s # records[r].doctor
                      /\ ~records[r].isVisible) => last'.err = "AccessDenied"
    /\ last'.op = "verifyRecord" =>
          \A s \in Addr, r \in RecIds, h \in Hashes :
              verifyRecord(s, r, h) =>
                  /\ last'.err = IF records[r].exists THEN OK ELSE "NotFound"
                  /\ last'.retBool = (records[r].exists /\ records[r].recordHash = h)
    /\ last'.op = "createRecord" =>
          \A s \in Addr, p \in Addr0 :
              (\E h \in Hashes, c \in Cids, t \in RecordTypes : createRecord(s, p, h, c, t)) =>
                  /\ last'.err =
                        IF ~(identities[s].exists /\ identities[s].role = DOCTOR
                             /\ identities[s].isVerified) THEN "Unauthorized"
                        ELSE IF ~(identities[p].exists /\ identities[p].role = PATIENT)
                             THEN "InvalidPatient"
                        ELSE OK
                  /\ last'.ret = IF last'.err = OK THEN recordCount ELSE 0
    /\ last'.op = "toggleVisibility" =>
          \A s \in Addr, r \in RecIds :
              toggleVisibility(s, r) =>
                  last'.err =
                      IF ~records[r].exists THEN "NotFound"
                      ELSE IF s # records[r].patient THEN "Unauthorized"
                      ELSE OK
    /\ last'.op \in {"grantAccess", "revokeAccess"} =>
          /\ UNCHANGED recVars
          /\ getTotalRecords' = getTotalRecords
          /\ \A a \in Addr0 :
                /\ getPatientRecordIds(a)' = getPatientRecordIds(a)
                /\ getDoctorRecordIds(a)' = getDoctorRecordIds(a)
                /\ getVisiblePatientRecords(a)' = getVisiblePatientRecords(a)
C24_RegistryIndependent == [][C24_Step]_vars

\* The one record is hidden, and every account that is neither its patient
\* nor its author is a verified doctor to whom the patient has granted
\* access: one of these was refused by getRecord with AccessDenied.
C24_Witness ==
    /\ last.op = "getRecord"
    /\ last.err = "AccessDenied"
    /\ recordCount = 1
    /\ ~records[0].isVisible
    /\ \A d \in Addr \ {records[0].patient, records[0].doctor} :
          /\ isVerifiedDoctor(d)
          /\ hasAccess(records[0].patient, d)

(***************************************************************************)
(* Granting again, checked under SpecRegrant.                              *)
(***************************************************************************)

\* C25: a grantAccess(doctor, durationSeconds) call by c that returns
\* overwrites the whole grant of (c, doctor), whatever it held before (no
\* grant, a grant in force, a revoked one, an expired one): afterwards it
\* exists with granted = true, grantedAt = now and expiresAt = now +
\* durationSeconds if durationSeconds > 0 and else 0, and nothing of the
\* earlier expiresAt is kept; so a permanent grant granted again with
\* durationSeconds > 0 has an expiry, and a revoked grant gives access again.
\* No other grant is written.
C25_Step ==
    (last'.op = "grantAccess" /\ last'.err = OK) =>
        \A c \in Addr, d \in Addr0, n \in Durations :
            grantAccess(c, d, n) =>
                /\ storedGrant(c, d)' =
                      [isGranted |-> TRUE, grantedAt |-> now,
                       expiresAt |-> IF n > 0 THEN now + n ELSE 0, exists |-> TRUE]
                /\ (storedGrant(c, d).exists /\ storedGrant(c, d).expiresAt = 0 /\ n > 0) =>
                      storedGrant(c, d)'.expiresAt > now
                /\ (storedGrant(c, d).exists /\ ~storedGrant(c, d).isGranted) =>
                      hasAccess(c, d)'
                /\ (storedGrant(c, d).isGranted /\ ~hasAccess(c, d)) => hasAccess(c, d)'
                /\ \A p \in Addr0, e \in Addr0 :
                      <<p, e>> # <<c, d>> => storedGrant(p, e)' = storedGrant(p, e)
C25_GrantOverwrites == [][C25_Step]_vars

\* A permanent grant that was in force has been granted again with a
\* duration after the clock had advanced: the stored grant now has an expiry.
C25_Witness ==
    /\ last.op = "grantAccess"
    /\ last.err = OK
    /\ replacedGrant.isGranted
    /\ replacedGrant.expiresAt = 0
    /\ replacedGrant.grantedAt < now
    /\ \E p \in Addr, d \in Addr :
          /\ emitted = <<AccessGranted(p, d, now, storedGrant(p, d).expiresAt)>>
          /\ storedGrant(p, d).expiresAt > now

(***************************************************************************)
(* Claims about the reads, checked under SpecReads.                        *)
(***************************************************************************)

\* The view functions of the three contracts.
Reads ==
    {"getIdentity", "isVerifiedDoctor", "isPatient", "getPatientByHealthId",
     "getDoctorByDoctorId", "getRecord", "verifyRecord", "getPatientRecordIds",
     "getDoctorRecordIds", "getVisiblePatientRecords", "getTotalRecords",
     "hasAccess", "getAccessGrant", "getPatientDoctors", "getDoctorPatients",
     "getActivePatientCount"}

\* The step is a call revokeAccess(d) by p that returns.
RevokeReturns(p, d) ==
    /\ last'.op = "revokeAccess"
    /\ last'.err = OK
    /\ revokeAccess(p, d)

\* C26: a step that advances the clock and a call of any view function
\* leave the storage of the three contracts as it was; so the stored granted
\* flag of a grant stays true when the grant expires, and a stored granted
\* flag goes from true to false only in a revokeAccess call for that doctor
\* by the patient of the grant that returns.
C26_Step ==
    /\ now' # now => UNCHANGED <<idVars, recVars, acVars>>
    /\ last'.op \in Reads => UNCHANGED <<idVars, recVars, acVars>>
    /\ \A p \in Addr0, d \in Addr0 :
          /\ (storedGrant(p, d).isGranted /\ ~storedGrant(p, d)'.isGranted) =>
                RevokeReturns(p, d)
          /\ (storedGrant(p, d).isGranted /\ hasAccess(p, d) /\ ~hasAccess(p, d)'
              /\ ~RevokeReturns(p, d)) =>
                (now' > storedGrant(p, d).expiresAt /\ storedGrant(p, d)'.isGranted)
C26_ReadsArePure == [][C26_Step]_vars

\* hasAccess has returned false for a grant that has expired and whose
\* stored flag is still true.
C26_Witness ==
    /\ last.op = "hasAccess"
    /\ ~last.retBool
    /\ \E p \in Addr, d \in Addr :
          /\ storedGrant(p, d).isGranted
          /\ storedGrant(p, d).expiresAt > 0
          /\ now > storedGrant(p, d).expiresAt

(***************************************************************************)
(* Claims about the history of the records, checked under SpecAppend.      *)
(***************************************************************************)

\* The list s is a prefix of the list t.
IsPrefix(s, t) == Len(s) <= Len(t) /\ SubSeq(t, 1, Len(s)) = s

\* C27: records are append-only.  In every step a record that exists still
\* exists afterwards with the same recordHash, ipfsCid, patient, doctor,
\* recordType and createdAt; its isVisible flag changes only in a
\* toggleVisibility call by its patient that returns; and each list of
\* patientRecords and of doctorRecords either stays as it is or gets one id
\* appended at the end, in a createRecord call that returns.  So every
\* earlier value of a list is a prefix of every later value.
C27_Step ==
    /\ \A id \in RecIds :
          records[id].exists =>
              /\ records'[id] = [records[id] EXCEPT !.isVisible = records'[id].isVisible]
              /\ records'[id].exists
              /\ records'[id].isVisible # records[id].isVisible =>
                    /\ last'.op = "toggleVisibility"
                    /\ last'.err = OK
                    /\ toggleVisibility(records[id].patient, id)
    /\ \A a \in Addr0 :
          /\ IsPrefix(patientRecords[a], patientRecords'[a])
          /\ IsPrefix(doctorRecords[a], doctorRecords'[a])
          /\ Len(patientRecords'[a]) <= Len(patientRecords[a]) + 1
          /\ Len(doctorRecords'[a]) <= Len(doctorRecords[a]) + 1
          /\ (patientRecords'[a] # patientRecords[a] \/ doctorRecords'[a] # doctorRecords[a]) =>
                (last'.op = "createRecord" /\ last'.err = OK)
C27_AppendOnly == [][C27_Step]_vars

\* A patient has two records, created at different times, and has hidden
\* the first after the second was appended.
C27_Witness ==
    /\ last.op = "toggleVisibility"
    /\ last.err = OK
    /\ \E p \in Addr :
          /\ getPatientRecordIds(p) = <<0, 1>>
          /\ ~records[0].isVisible
          /\ records[0].createdAt < records[1].createdAt

(***************************************************************************)
(* Claims about updateProfile, checked under SpecMutators.                 *)
(***************************************************************************)

\* C28: updateProfile(newRef) called by c reverts when c has no identity and
\* returns when c has one, patient or doctor, verified or not.  A returned
\* call changes the profileCid of c to newRef and nothing else: the role,
\* verified flag, identityHash and registeredAt of c, the identity of every
\* other address, the owner, the three lookup maps, and the storage of the
\* record registry and of access control are as before.
C28_Step ==
    last'.op = "updateProfile" =>
    \A c \in Addr, newRef \in Cids :
        updateProfile(c, newRef) =>
            /\ ~identities[c].exists => (last'.err # OK /\ identities' = identities)
            /\ identities[c].exists => last'.err = OK
            /\ (identities[c].role = DOCTOR /\ ~identities[c].isVerified) => last'.err = OK
            /\ last'.err = OK =>
                  /\ identities'[c].profileCid = newRef
                  /\ identities'[c].role = identities[c].role
                  /\ identities'[c].isVerified = identities[c].isVerified
                  /\ identities'[c].identityHash = identities[c].identityHash
                  /\ identities'[c].registeredAt = identities[c].registeredAt
                  /\ identities'[c].exists
                  /\ \A a \in Addr0 \ {c} : identities'[a] = identities[a]
            /\ UNCHANGED <<owner, hashToAddress, healthIdToAddress, doctorIdToAddress>>
            /\ UNCHANGED <<recVars, acVars>>
C28_UpdateProfile == [][C28_Step]_vars

\* A doctor that is not verified has changed its profileCid, while a patient
\* is registered.
C28_Witness ==
    /\ last.op = "updateProfile"
    /\ last.err = OK
    /\ \E d \in Addr, p \in Addr :
          /\ identities[d].role = DOCTOR
          /\ ~identities[d].isVerified
          /\ emitted = <<ProfileUpdated(d, identities[d].profileCid)>>
          /\ identities[d].profileCid = NumCid
          /\ isPatient(p)

\* C29: isVerifiedDoctor(x) and isPatient(x) return a boolean for every
\* address x in every reachable state and never revert.  Both are false for
\* an address that has not registered; isPatient(x) is true exactly when x
\* holds an identity with role PATIENT; isVerifiedDoctor(x) is true exactly
\* when x holds an identity with role DOCTOR whose verified flag is true, so
\* it is false for a patient (whose flag is true) and for a doctor that is
\* not verified.  getPatientByHealthId and getDoctorByDoctorId never revert
\* and, in every state, return address(0) for an id that no returned
\* registration has linked (linkedHealthIds and linkedDoctorIds are the ids
\* linked so far), also while other ids are linked.
C29_Inv ==
    \A x \in Addr0 :
        /\ isPatient(x) \in BOOLEAN
        /\ isVerifiedDoctor(x) \in BOOLEAN
        /\ x \notin registered => (~isPatient(x) /\ ~isVerifiedDoctor(x))
        /\ isPatient(x) <=> (x \in registered /\ identities[x].role = PATIENT)
        /\ isVerifiedDoctor(x) <=>
              (x \in registered /\ identities[x].role = DOCTOR /\ identities[x].isVerified)
        /\ (identities[x].role = PATIENT /\ identities[x].isVerified) =>
              ~isVerifiedDoctor(x)
        /\ (identities[x].role = DOCTOR /\ ~identities[x].isVerified) =>
              ~isVerifiedDoctor(x)
C29_Step ==
    /\ last'.op \in {"isVerifiedDoctor", "isPatient", "getPatientByHealthId",
                       "getDoctorByDoctorId"} => last'.err = OK
    /\ last'.op = "isVerifiedDoctor" =>
          \A x \in Addr0 : isVerifiedDoctorCall(x) =>
              last'.retBool = (identities[x].role = DOCTOR /\ identities[x].isVerified)
    /\ last'.op = "isPatient" =>
          \A x \in Addr0 : isPatientCall(x) =>
              last'.retBool = (identities[x].role = PATIENT)
    /\ last'.op = "getPatientByHealthId" =>
          \A i \in Ids : getPatientByHealthIdCall(i) =>
              /\ last'.ret \in Addr0
              /\ i \notin linkedHealthIds => last'.ret = ZeroAddr
              /\ last'.ret # ZeroAddr => isPatient(last'.ret)
    /\ last'.op = "getDoctorByDoctorId" =>
          \A i \in Ids : getDoctorByDoctorIdCall(i) =>
              /\ last'.ret \in Addr0
              /\ i \notin linkedDoctorIds => last'.ret = ZeroAddr
              /\ last'.ret # ZeroAddr => identities[last'.ret].role = DOCTOR
C29_Predicates == []C29_Inv /\ [][C29_Step]_vars

\* getPatientByHealthId has just returned address(0) for an id that no
\* registration has linked, while another id is linked to a patient, whose
\* verified flag is true, and a doctor that is not verified is registered:
\* isPatient holds of the one only, isVerifiedDoctor of neither.
C29_Witness ==
    /\ last.op = "getPatientByHealthId"
    /\ last.err = OK
    /\ last.ret = ZeroAddr
    /\ linkedHealthIds # {}
    /\ \E i \in Ids \ linkedHealthIds : getPatientByHealthId(i) = ZeroAddr
    /\ \E i \in linkedHealthIds :
           /\ isPatient(getPatientByHealthId(i))
           /\ identities[getPatientByHealthId(i)].isVerified
    /\ \E d \in Addr : identities[d].role = DOCTOR /\ ~identities[d].isVerified
    /\ \A x \in Addr0 : ~isVerifiedDoctor(x)

(***************************************************************************)
(* The arithmetic of grantAccess, checked under SpecAccess.                *)
(***************************************************************************)

\* C30: grantAccess fails only with Unauthorized or InvalidTarget: called by
\* a patient for a verified doctor it returns for every durationSeconds of
\* type uint256 and at every block.timestamp, and for durationSeconds > 0
\* the stored expiresAt is now + durationSeconds exactly, is greater than
\* grantedAt and is not 0, the value that stands for no expiry.
C30_Step ==
    last'.op = "grantAccess" =>
    \A c \in Addr, d \in Addr0, n \in Durations :
        grantAccess(c, d, n) =>
            /\ last'.err \in {OK, "Unauthorized", "InvalidTarget"}
            /\ (isPatient(c) /\ isVerifiedDoctor(d)) => last'.err = OK
            /\ (last'.err = OK /\ n > 0) =>
                  /\ storedGrant(c, d)'.expiresAt = now + n
                  /\ storedGrant(c, d)'.expiresAt > storedGrant(c, d)'.grantedAt
                  /\ storedGrant(c, d)'.expiresAt # 0
C30_GrantAccessNeverPanics == [][C30_Step]_vars

(***************************************************************************)
(* C31  Record parties.  In every reachable state, every allocated record  *)
(* names as patient an account for which isPatient is true and as author   *)
(* an account for which isVerifiedDoctor is true, at creation and after    *)
(* every later call (registrations, verifications, profile updates,        *)
(* visibility toggles, grants and revocations); so the patient and the     *)
(* author of a record are different accounts.                              *)
(***************************************************************************)
C31_Inv ==
    \A id \in RecIds :
        records[id].exists =>
            /\ isPatient(records[id].patient)
            /\ isVerifiedDoctor(records[id].doctor)
            /\ records[id].patient # records[id].doctor
C31_RecordParties == []C31_Inv

\* Two records exist, and the latest call is a later profile update by the
\* author of one of them.
C31_Witness ==
    /\ recordCount = 2
    /\ last.op = "updateProfile"
    /\ last.err = OK
    /\ \E id \in RecIds :
           /\ records[id].exists
           /\ emitted = <<ProfileUpdated(records[id].doctor, 2)>>

(***************************************************************************)
(* C32  Grant parties.  In every reachable state, every existing grant     *)
(* keyed (p, d) has isPatient(p) and isVerifiedDoctor(d), so p # d: no     *)
(* account holds a grant to itself, no grant is keyed by a non-patient,    *)
(* and none targets the zero address, an unregistered account, a patient   *)
(* or an unverified doctor.  revokeAccess, which does not look at the      *)
(* target's role, keeps this.                                              *)
(***************************************************************************)
C32_Inv ==
    \A p \in Addr0, d \in Addr0 :
        storedGrant(p, d).exists =>
            /\ isPatient(p)
            /\ isVerifiedDoctor(d)
            /\ p # d
C32_GrantParties == []C32_Inv

\* A patient holds a revoked grant and a grant in force to two doctors,
\* and the latest call is a grantAccess refused for its target.
C32_Witness ==
    /\ last.op = "grantAccess"
    /\ last.err = "InvalidTarget"
    /\ \E p \in Addr, d \in Addr, e \in Addr :
           /\ d # e
           /\ storedGrant(p, d).exists
           /\ ~storedGrant(p, d).isGranted
           /\ storedGrant(p, e).isGranted

(***************************************************************************)
(* C33  Grant indexes.  In every reachable state, for every pair (p, d):   *)
(* d is in patientDoctors[p] exactly when the grant of (p, d) exists,      *)
(* exactly when p is in doctorPatients[d]; the stored isGranted flag is    *)
(* true only for a grant that exists; and a pair whose grant does not      *)
(* exist stores isGranted = false, grantedAt = 0 and expiresAt = 0.        *)
(***************************************************************************)
C33_Inv ==
    \A p \in Addr0, d \in Addr0 :
        /\ (d \in Elems(patientDoctors[p])) <=> storedGrant(p, d).exists
        /\ (p \in Elems(doctorPatients[d])) <=> storedGrant(p, d).exists
        /\ storedGrant(p, d).isGranted => storedGrant(p, d).exists
        /\ ~storedGrant(p, d).exists =>
               /\ ~storedGrant(p, d).isGranted
               /\ storedGrant(p, d).grantedAt = 0
               /\ storedGrant(p, d).expiresAt = 0
C33_GrantIndexes == []C33_Inv

\* A revocation has just returned: the revoked pair, granted after the
\* clock first advanced, is still in both lists, while another doctor of
\* the same patient holds a grant in force and no other pair has a grant.
C33_Witness ==
    /\ last.op = "revokeAccess"
    /\ last.err = OK
    /\ \E p \in Addr, d \in Addr, e \in Addr :
           /\ emitted = <<AccessRevoked(p, d, now)>>
           /\ storedGrant(p, d).grantedAt > 0
           /\ d \in Elems(patientDoctors[p])
           /\ p \in Elems(doctorPatients[d])
           /\ e # d
           /\ storedGrant(p, e).isGranted
           /\ \A q \in Addr0 \ {p} : patientDoctors[q] = <<>>

(***************************************************************************)
(* C34  Record indexes.  In every reachable state, each id below           *)
(* recordCount occurs exactly once in the per-patient list of its record's *)
(* patient and in no other per-patient list, exactly once in the           *)
(* per-author list of its record's author and in no other per-author       *)
(* list; no list holds an id at or above recordCount; and every list is    *)
(* strictly increasing, so that getPatientRecordIds(p) is the ascending    *)
(* list of the ids whose patient is p, and getDoctorRecordIds(d) that of   *)
(* the ids whose author is d.                                              *)
(***************************************************************************)
Occurrences(list, x) == Cardinality({i \in DOMAIN list : list[i] = x})

StrictlyIncreasing(list) ==
    \A i \in DOMAIN list, j \in DOMAIN list : i < j => list[i] < list[j]

C34_Inv ==
    /\ \A id \in RecIds : id < recordCount =>
           /\ \A a \in Addr0 :
                  Occurrences(patientRecords[a], id) =
                      IF a = records[id].patient THEN 1 ELSE 0
           /\ \A a \in Addr0 :
                  Occurrences(doctorRecords[a], id) =
                      IF a = records[id].doctor THEN 1 ELSE 0
    /\ \A a \in Addr0 :
           /\ \A i \in DOMAIN patientRecords[a] : patientRecords[a][i] < recordCount
           /\ \A i \in DOMAIN doctorRecords[a] : doctorRecords[a][i] < recordCount
           /\ StrictlyIncreasing(getPatientRecordIds(a))
           /\ StrictlyIncreasing(getDoctorRecordIds(a))
           /\ Elems(getPatientRecordIds(a)) =
                  {id \in RecIds : records[id].exists /\ records[id].patient = a}
           /\ Elems(getDoctorRecordIds(a)) =
                  {id \in RecIds : records[id].exists /\ records[id].doctor = a}
C34_RecordIndexes == []C34_Inv

\* One author has written a record for each of two patients: the author's
\* list holds both ids in ascending order, each patient's list one of them.
C34_Witness ==
    \E p \in Addr, q \in Addr, d \in Addr :
        /\ p # q
        /\ getPatientRecordIds(p) = <<0>>
        /\ getPatientRecordIds(q) = <<1>>
        /\ getDoctorRecordIds(d) = <<0, 1>>

(***************************************************************************)
(* C35  Ownership of state.  In every step of the mutating functions:      *)
(* a grant keyed (p, _) or the list patientDoctors[p] changes only in a    *)
(* grantAccess or revokeAccess call made by p; the isVisible flag of an    *)
(* existing record changes only in a toggleVisibility call made by the     *)
(* record's patient (never its author); and the identity of a changes      *)
(* only in a registerPatient, registerDoctor or updateProfile call made    *)
(* by a, or in a verifyDoctor(a) call made by the owner, which changes     *)
(* the isVerified flag of a and nothing else of it.                        *)
(***************************************************************************)
CallByGrantor(p) ==
    \/ \E d \in Addr0, n \in Durations : grantAccess(p, d, n)
    \/ \E d \in Addr0 : revokeAccess(p, d)

CallByHolder(a) ==
    \/ \E h \in Hashes, i \in Ids, c \in Cids : registerPatient(a, h, i, c)
    \/ \E h \in Hashes, i \in Ids, c \in Cids : registerDoctor(a, h, i, c)
    \/ \E c \in Cids : updateProfile(a, c)

C35_Step ==
    /\ \A p \in Addr0 :
           (accessGrants'[p] # accessGrants[p] \/ patientDoctors'[p] # patientDoctors[p])
               => CallByGrantor(p)
    /\ \A id \in RecIds :
           (records[id].exists /\ records'[id].isVisible # records[id].isVisible)
               => /\ toggleVisibility(records[id].patient, id)
                  /\ emitted' # <<RecordVisibilityChanged(id, records[id].doctor,
                                       records'[id].isVisible, now)>>
    /\ \A a \in Addr0 :
           identities'[a] # identities[a]
               => \/ CallByHolder(a)
                  \/ /\ verifyDoctor(owner, a)
                     /\ identities'[a] = [identities[a] EXCEPT !.isVerified = TRUE]
C35_OwnedState == [][C35_Step]_vars

\* A caller other than the patient has just been refused by
\* toggleVisibility, on a record its patient had hidden, while the
\* patient's grant to the author stands revoked.
C35_Witness ==
    /\ last.op = "toggleVisibility"
    /\ last.err = "Unauthorized"
    /\ \E id \in RecIds :
           /\ records[id].exists
           /\ ~records[id].isVisible
           /\ storedGrant(records[id].patient, records[id].doctor).exists
           /\ ~storedGrant(records[id].patient, records[id].doctor).isGranted

(***************************************************************************)
(* C36  Reverse lookups.  In every reachable state: hashToAddress sends h  *)
(* to the account a exactly when a holds an identity whose identityHash    *)
(* is h; every account that getPatientByHealthId returns is a registered   *)
(* patient and every account that getDoctorByDoctorId returns a            *)
(* registered doctor; every registered patient is the target of exactly    *)
(* one healthId and every registered doctor of exactly one doctorId.  The  *)
(* two id maps are separate: a registration whose sender, hash and id are  *)
(* free in its own map succeeds whatever the other map holds for the same  *)
(* string, and leaves the other map as it was.                             *)
(***************************************************************************)
C36_Inv ==
    /\ \A h \in Hashes, a \in Addr :
           hashToAddress[h] = a <=>
               (identities[a].exists /\ identities[a].identityHash = h)
    /\ \A h \in Hashes : hashToAddress[h] \in Addr0
    /\ \A i \in Ids :
           /\ getPatientByHealthId(i) # ZeroAddr => isPatient(getPatientByHealthId(i))
           /\ getDoctorByDoctorId(i) # ZeroAddr =>
                  /\ identities[getDoctorByDoctorId(i)].exists
                  /\ identities[getDoctorByDoctorId(i)].role = DOCTOR
    /\ \A a \in Addr :
           /\ isPatient(a) =>
                  Cardinality({i \in Ids : getPatientByHealthId(i) = a}) = 1
           /\ (identities[a].exists /\ identities[a].role = DOCTOR) =>
                  Cardinality({i \in Ids : getDoctorByDoctorId(i) = a}) = 1

C36_Step ==
    /\ last'.op = "registerDoctor" =>
           \A s \in Addr, h \in Hashes, i \in Ids, c \in Cids :
               (/\ registerDoctor(s, h, i, c)
                /\ ~identities[s].exists
                /\ hashToAddress[h] = ZeroAddr
                /\ getDoctorByDoctorId(i) = ZeroAddr) =>
                   /\ last'.err = OK
                   /\ getDoctorByDoctorId(i)' = s
                   /\ healthIdToAddress' = healthIdToAddress
    /\ last'.op = "registerPatient" =>
           \A s \in Addr, h \in Hashes, i \in Ids, c \in Cids :
               (/\ registerPatient(s, h, i, c)
                /\ ~identities[s].exists
                /\ hashToAddress[h] = ZeroAddr
                /\ getPatientByHealthId(i) = ZeroAddr) =>
                   /\ last'.err = OK
                   /\ getPatientByHealthId(i)' = s
                   /\ doctorIdToAddress' = doctorIdToAddress
C36_ReverseLookups == []C36_Inv /\ [][C36_Step]_vars

\* A doctor has just registered with the string that a patient holds as
\* healthId: the same string resolves to the patient as healthId and to the
\* doctor as doctorId.
C36_Witness ==
    /\ last.op = "registerDoctor"
    /\ last.err = OK
    /\ \E i \in Ids :
           /\ getPatientByHealthId(i) # ZeroAddr
           /\ getDoctorByDoctorId(i) # ZeroAddr
           /\ getPatientByHealthId(i) # getDoctorByDoctorId(i)
           /\ emitted[2] = DoctorIdLinked(getDoctorByDoctorId(i), i)

(***************************************************************************)
(* C37  Only getRecord checks the caller.  A getRecord call on a hidden    *)
(* record by an account that is neither its patient nor its author is      *)
(* refused.  A verifyRecord(id, h) call has the same outcome for every     *)
(* caller: for an existing record, hidden or not, it returns whether h is  *)
(* the stored hash, also to a caller that getRecord refuses.  The public   *)
(* getter records(id) returns the stored fields of the record, hidden or   *)
(* not, and getPatientRecordIds, getDoctorRecordIds and                    *)
(* getVisiblePatientRecords return lists that depend on the stored state   *)
(* only: the first two hold the ids of hidden records too, the third       *)
(* leaves them out for every caller.                                       *)
(***************************************************************************)
Outsiders(id) == Addr \ {records[id].patient, records[id].doctor}

Hidden(id) == records[id].exists /\ ~records[id].isVisible

C37_Step ==
    /\ last'.op = "getRecord" =>
           \A s \in Addr, r \in RecIds :
               (getRecord(s, r) /\ Hidden(r) /\ s \in Outsiders(r)) =>
                   last'.err = "AccessDenied"
    /\ last'.op = "verifyRecord" =>
           \A s \in Addr, r \in RecIds, h \in Hashes :
               verifyRecord(s, r, h) =>
                   /\ \A q \in Addr : verifyRecord(q, r, h)
                   /\ records[r].exists =>
                          /\ last'.err = OK
                          /\ last'.retBool = (records[r].recordHash = h)
                   /\ Hidden(r) =>
                          \A q \in Outsiders(r) : getRecordErr(q, r) = "AccessDenied"
    /\ last'.op = "records" =>
           \A r \in RecIds :
               recordsCall(r) =>
                   /\ last'.err = OK
                   /\ last'.ret[1] = records[r].recordHash
                   /\ last'.ret[2] = records[r].ipfsCid
                   /\ last'.ret[3] = records[r].patient
                   /\ last'.ret[4] = records[r].doctor
                   /\ last'.ret[5] = records[r].recordType
                   /\ last'.ret[6] = records[r].isVisible
                   /\ last'.ret[7] = records[r].createdAt
                   /\ last'.ret[8] = records[r].exists
                   /\ Hidden(r) =>
                          \A q \in Outsiders(r) : getRecordErr(q, r) = "AccessDenied"
    /\ last'.op = "getPatientRecordIds" =>
           \A a \in Addr0 :
               getPatientRecordIdsCall(a) =>
                   Elems(last'.ret) =
                       {id \in RecIds : records[id].exists /\ records[id].patient = a}
    /\ last'.op = "getDoctorRecordIds" =>
           \A a \in Addr0 :
               getDoctorRecordIdsCall(a) =>
                   Elems(last'.ret) =
                       {id \in RecIds : records[id].exists /\ records[id].doctor = a}
    /\ last'.op = "getVisiblePatientRecords" =>
           \A a \in Addr0 :
               getVisiblePatientRecordsCall(a) =>
                   Elems(last'.ret) =
                       {id \in RecIds : /\ records[id].exists
                                        /\ records[id].patient = a
                                        /\ records[id].isVisible}
C37_OnlyGetRecordChecks == [][C37_Step]_vars

\* verifyRecord has just confirmed the hash of a hidden record, in a state
\* where an account that is neither the patient nor the author of the
\* record exists: the same call by that account, which getRecord refuses,
\* has this outcome.
C37_Witness ==
    /\ last.op = "verifyRecord"
    /\ last.err = OK
    /\ last.retBool
    /\ recordCount = 1
    /\ Hidden(0)
    /\ Outsiders(0) # {}
    /\ \A q \in Outsiders(0) : getRecordErr(q, 0) = "AccessDenied"

====
